---------------------------- MODULE Spec2Model ----------------------------
(***************************************************************************)
(* QuantNexus / Atlas Forge backtesting engine (System.app/server/python). *)
(*                                                                         *)
(* The module models                                                       *)
(*   - Backtester.simulate and the tree evaluator (backtester.py),         *)
(*   - Backtester._eval_conditions on its own (condition composition),     *)
(*   - Backtester.build_price_database / run_backtest (panel acceptance),  *)
(*   - IndicatorCache.get_indicator under a long-lived Backtester,         *)
(*   - VectorizedOptimizer.optimize (threshold sweeps),                    *)
(*   - the branch generators of the rolling and the flowchart optimizer,   *)
(*   - the IS/OOS split and the metrics of run_backtest,                   *)
(*   - the task loop of persistent_worker.main,                            *)
(*   - ResultCache (result_cache.py),                                      *)
(*   - the worker pool of OptimizedForgeEngine.run_optimization,           *)
(*   - PriceDataCache (optimized_dataloader.py),                           *)
(*   - RollingOptimizer.run_rolling_optimization and its value loop,       *)
(*   - FlowchartExecutor._evaluate_conditions,                             *)
(*   - RollingOptimizer.generate_branches with _apply_param_to_tree,       *)
(*   - the startup of persistent_worker.main,                              *)
(*   - a threshold sweep next to Backtester.simulate on its variants.      *)
(*                                                                         *)
(* Floating point numbers are modelled as exact rationals [n, d] with      *)
(* d > 0, NaN as 0/0 and Python's None as a distinct value.                *)
(***************************************************************************)
EXTENDS Integers, Sequences, FiniteSets, TLC

VARIABLES
    \* ---- Backtester.run_backtest / simulate ----
    tree,             \* the strategy tree of the backtest
    db,               \* db['close']: ticker -> sequence of closes
    cfg,              \* import outcome: [cache |-> CACHE_AVAILABLE, numba |-> USE_NUMBA]
    cost_bps,         \* options['costBps']
    pc,               \* position of run_backtest: "sim", "done", "idle"
    idx,              \* number of bars already simulated (bar i = idx + 1 is next)
    equity,           \* simulate: equity
    holdings,         \* simulate: holdings, ticker -> shares
    prev_allocation,  \* simulate: prev_allocation
    equity_curve,     \* simulate: equity_curve (values only)
    allocations,      \* simulate: allocations
    altExit_state,    \* ctx['altExit_state'] of the ctx of the last evaluate_tree
    rebalanced,       \* whether the last bar took the rebalance branch
    result,           \* what run_backtest gave: "none", "ok", "error"
    \* ---- Backtester._eval_conditions on its own ----
    conds,            \* the condition list under evaluation
    condRow,          \* the bar the list is evaluated at: ticker -> close
    condOut,          \* "none", or what _eval_conditions returned: "True" / "False"
    \* ---- build_price_database ----
    raw,              \* bar store: ticker -> (date -> close, None where no row)
    req,              \* tickers and indicator_tickers run_backtest asks for
    panel,            \* what build_price_database returned, once it has run
    verdict,          \* run_backtest on the panel: "none", "error", "accepted"
    \* ---- IndicatorCache under a persistent Backtester ----
    use_numba,        \* USE_NUMBA of indicator_cache.py
    icache,           \* Backtester.indicator_cache.cache: key -> series
    cprices,          \* db['close'] of the backtest now running
    lastGet,          \* the last get_indicator call: its arguments and result
    nBacktests,       \* backtests started on this instance
    \* ---- VectorizedOptimizer ----
    branches,         \* the input branches of optimize
    sweepData,        \* whether the bar store holds the 250 dates the sweep needs
    sweepOut,         \* what optimize returned, once it has run
    \* ---- branch generation of a sweep ----
    ranges,           \* parameter_ranges handed to the generators
    genOut,           \* what the generators returned, once they have run
    \* ---- run_backtest after simulate: metrics and the IS/OOS split ----
    db_dates,         \* db['dates']: the timestamp of each bar
    split_config,     \* options['splitConfig']
    NUMBA_AVAILABLE,  \* whether backtester.py could import optimized_metrics
    split,            \* is_indices and oos_indices, once computed
    metrics,          \* metrics of the whole curve
    is_metrics,       \* isMetrics of the result
    oos_metrics,      \* oosMetrics of the result
    \* ---- persistent_worker.main ----
    stdin,            \* lines written to the worker and not yet read
    stdout,           \* records the worker has printed since "ready"
    task,             \* the local variable task of main, once bound
    consumed,         \* the lines the worker has read, in order
    wstate,           \* "running", "stopped" (EOF or shutdown), "exited" (sys.exit(1))
    \* ---- ResultCache ----
    rcache,           \* ResultCache.cache: entries [key, result] in insertion order
    stored,           \* the (tree, options) pairs set() was called with, in order
    got,              \* the last get(): its arguments and what it returned
    \* ---- run_forge_optimized ----
    forge,            \* the pool, the results collected so far and the position of the call
    \* ---- PriceDataCache ----
    pdc,              \* the cache, its counters and the last get_ticker_data call
    \* ---- RollingOptimizer.run_rolling_optimization ----
    roll,             \* the position of the walk-forward, its windows and the backtests it has run
    \* ---- FlowchartExecutor._evaluate_conditions ----
    fx,               \* the price series, the condition list and the series returned
    \* ---- the value loop of the branch generators ----
    enum,             \* the range, current and values of the loop that enumerates one range
    \* ---- generate_branches on a tree ----
    applied,          \* the base tree, the ranges with their paths and the branches built from them
    \* ---- persistent_worker.main from its first line ----
    boot,             \* the config line, the task lines behind it, the lines read, the records written and the position of the worker
    \* ---- a threshold sweep next to the backtests of its variants ----
    vec               \* the panel, the gate and its thresholds, the loop variables of _vectorized_simulate and the equity curves simulate gives for the variants

simVars   == <<tree, db, cfg, cost_bps, pc, idx, equity, holdings, prev_allocation,
               equity_curve, allocations, altExit_state, rebalanced, result>>
condVars  == <<conds, condRow, condOut>>
panelVars == <<raw, req, panel, verdict>>
cacheVars == <<use_numba, icache, cprices, lastGet, nBacktests>>
sweepVars == <<branches, sweepData, sweepOut>>
genVars   == <<ranges, genOut>>
splitVars == <<db_dates, split_config, NUMBA_AVAILABLE, split, metrics, is_metrics,
               oos_metrics>>
workerVars == <<stdin, stdout, task, consumed, wstate>>
rcVars    == <<rcache, stored, got>>
lateVars  == <<forge, pdc, roll, fx, enum, applied, boot, vec>>
moreVars  == <<genVars, splitVars, workerVars, rcVars, lateVars>>
vars      == <<simVars, condVars, panelVars, cacheVars, sweepVars, moreVars>>

-----------------------------------------------------------------------------
(* Bounds of the model *)

MaxBars == 3          \* bars of a simulated panel
MaxConds == 4         \* conditions in a list evaluated on its own
MaxDates == 4         \* calendar days of the bar store
MaxBacktests == 3     \* backtests run on one Backtester instance
MaxBranches == 11     \* branches handed to the vectorized optimizer
MaxThreshold == 11    \* thresholds 1..MaxThreshold of a sweep
MaxRanges == 2        \* parameter ranges of a sweep configuration
MaxValue == 4         \* min and max of a parameter range lie in 1..MaxValue
MaxStep == 3          \* step of a parameter range lies in 1..MaxStep
MaxSplitBars == 4     \* bars of a backtest whose curve is split into IS and OOS
MaxLines == 3         \* lines written to a persistent worker
MaxSets == 2          \* results stored in a ResultCache
MaxGets == 1          \* lookups in a ResultCache
MaxTickers == 3       \* tickers of a forge job
MaxWorkers == 2       \* worker processes of a pool
MaxPassing == 2       \* passing branches one ticker returns
MaxCacheSize == 2     \* cache_size of a PriceDataCache
MaxAccesses == 4      \* calls of PriceDataCache.get_ticker_data
MaxRollBars == 3      \* bars of the store a walk-forward runs over
MaxRollBranches == 2  \* branches a walk-forward ranks
MaxFxBars == 2        \* bars of the frame a flowchart condition list is evaluated on
MaxFxConds == 3       \* conditions of a flowchart condition list
MaxLoop == 6          \* iterations of a value loop whose values are recorded
MaxPaths == 2         \* ranges with a path handed to generate_branches with a tree
MaxBootTasks == 2     \* task lines behind the config line of a starting worker
MaxThresholds == 2    \* thresholds of one vectorized sweep

(* Program constants *)

MIN_DATES == 3                 \* backtester.py:34
START_EQUITY == 10000          \* backtester.py:393
BPS_DENOM == 10000             \* backtester.py:400
MIN_VECTORIZE == 10            \* vectorized_optimizer.py:37
MAX_CACHE_SIZE == 2000         \* backtester.py:46

-----------------------------------------------------------------------------
(* Floats as exact rationals *)

RECURSIVE GCD(_, _)
GCD(a, b) == IF b = 0 THEN a ELSE GCD(b, a % b)

Abs(a) == IF a < 0 THEN -a ELSE a

Reduce(n, d, g) == [n |-> n \div g, d |-> d \div g]
Norm(n, d) == Reduce(n, d, GCD(Abs(n), d))

R(k) == [n |-> k, d |-> 1]
Q(n, d) == Norm(n, d)
NaN == [n |-> 0, d |-> 0]
None == [n |-> 0, d |-> -1]

IsNaN(x) == x.d = 0
IsNum(x) == x.d > 0

AddOver(a, b, g) == Norm(a.n * (b.d \div g) + b.n * (a.d \div g), (a.d \div g) * b.d)

FAdd(a, b) == IF IsNaN(a) \/ IsNaN(b) THEN NaN ELSE AddOver(a, b, GCD(a.d, b.d))

FNeg(a) == IF IsNaN(a) THEN NaN ELSE [n |-> -a.n, d |-> a.d]
FSub(a, b) == FAdd(a, FNeg(b))

MulOver(a, b, g1, g2) ==
    Norm((a.n \div g1) * (b.n \div g2), (a.d \div g2) * (b.d \div g1))

FMul(a, b) ==
    IF IsNaN(a) \/ IsNaN(b) THEN NaN
    ELSE MulOver(a, b, GCD(Abs(a.n), b.d), GCD(Abs(b.n), a.d))

\* a / b for b # 0 (every division of the modelled code is by a non-zero value)
Inverse(b) == IF b.n > 0 THEN [n |-> b.d, d |-> b.n] ELSE [n |-> -b.d, d |-> -b.n]

FDiv(a, b) == IF IsNaN(a) \/ IsNaN(b) THEN NaN ELSE FMul(a, Inverse(b))

\* IEEE comparisons: every comparison with NaN is false
LtOver(a, b, g) == a.n * (b.d \div g) < b.n * (a.d \div g)

FLt(a, b) == IsNum(a) /\ IsNum(b) /\ LtOver(a, b, GCD(a.d, b.d))
FGt(a, b) == FLt(b, a)
FEq(a, b) == IsNum(a) /\ IsNum(b) /\ a = b

\* Python's builtin min(a, b) / max(a, b): the first argument is kept unless the
\* second compares smaller / greater
PyMin(a, b) == IF FLt(b, a) THEN b ELSE a
PyMax(a, b) == IF FGt(b, a) THEN b ELSE a

RECURSIVE SumSeq(_)
SumSeq(s) == IF s = <<>> THEN R(0) ELSE FAdd(s[1], SumSeq(Tail(s)))

RECURSIVE SumFn(_, _)
SumFrom(f, S, t) == FAdd(f[t], SumFn(f, S \ {t}))
SumFn(f, S) == IF S = {} THEN R(0) ELSE SumFrom(f, S, CHOOSE u \in S : TRUE)

\* np.mean of s[lo..hi] (1-based, non-empty)
Mean(s, lo, hi) == FDiv(SumSeq(SubSeq(s, lo, hi)), R(hi - lo + 1))

Max2(a, b) == IF a > b THEN a ELSE b

-----------------------------------------------------------------------------
(* Indicator library.  Three metrics are modelled: "Simple Moving Average",    *)
(* "Relative Strength Index" and "Current Price", a name none of the            *)
(* dispatchers knows, which falls through to the price series itself.           *)

SMA == "Simple Moving Average"
PRICE == "Current Price"

HasNaNUpTo(prices, i) == \E j \in 1..i : IsNaN(prices[j])

\* optimized_indicators.calculate_sma_fast: a rolling window_sum, so a NaN stays in it
calculate_sma_fast(prices, period) ==
    IF Len(prices) < period THEN prices
    ELSE [i \in 1..Len(prices) |->
            IF i < period THEN prices[i]
            ELSE IF HasNaNUpTo(prices, i) THEN NaN
            ELSE Mean(prices, i - period + 1, i)]

\* pandas rolling(window=period, min_periods=1).mean(): the mean of the finite
\* values of the window, NaN when it has none
MeanOrNaN(fin) == IF fin = <<>> THEN NaN ELSE FDiv(SumSeq(fin), R(Len(fin)))

RollingMean(prices, lo, hi) == MeanOrNaN(SelectSeq(SubSeq(prices, lo, hi), IsNum))

\* IndicatorCache._calculate_sma
_calculate_sma(numba, prices, period) ==
    IF numba THEN calculate_sma_fast(prices, period)
    ELSE IF Len(prices) < period THEN prices
    ELSE [i \in 1..Len(prices) |-> RollingMean(prices, Max2(1, i - period + 1), i)]

\* Backtester.calculate_sma: NaN until the window is full
calculate_sma(prices, period) ==
    [i \in 1..Len(prices) |->
        IF i < period THEN NaN ELSE Mean(prices, i - period + 1, i)]

RSI == "Relative Strength Index"

Deltas(prices) == [i \in 1..(Len(prices) - 1) |-> FSub(prices[i + 1], prices[i])]
Gains(deltas) ==
    [i \in 1..Len(deltas) |-> IF FGt(deltas[i], R(0)) THEN deltas[i] ELSE R(0)]
Losses(deltas) ==
    [i \in 1..Len(deltas) |->
        IF FLt(deltas[i], R(0)) THEN FSub(R(0), deltas[i]) ELSE R(0)]

\* (avg * (period - 1) + x) / period, which is x * alpha + avg * (1 - alpha) for
\* alpha = 1 / period
Smoothed(avg, x, period) == FDiv(FAdd(FMul(avg, R(period - 1)), x), R(period))

\* the running averages of the three RSI routines: the mean of the first period
\* changes, then one smoothing step per later change
RECURSIVE RunningAverages(_, _, _)
RunningAverages(changes, period, averages) ==
    IF Len(averages) = Len(changes) - period + 1 THEN averages
    ELSE RunningAverages(changes, period,
                         Append(averages,
                                Smoothed(averages[Len(averages)],
                                         changes[period + Len(averages)], period)))

AverageSeries(changes, period) ==
    RunningAverages(changes, period, <<Mean(changes, 1, period)>>)

\* 100 - (100 / (1 + rs)) with rs = avg_gain / avg_loss
RsiValue(avg_gain, avg_loss) ==
    FSub(R(100), FDiv(R(100), FAdd(R(1), FDiv(avg_gain, avg_loss))))

\* the series of a routine that fills the bars before period with warm and
\* writes first_flat / later_flat where avg_loss is zero at bar period / later
RsiSeries(prices, period, gains, losses, warm, first_flat, later_flat) ==
    [i \in 1..Len(prices) |->
        IF i <= period THEN warm
        ELSE IF losses[i - period] = R(0)
        THEN (IF i = period + 1 THEN first_flat ELSE later_flat)
        ELSE RsiValue(gains[i - period], losses[i - period])]

RsiOver(prices, period, deltas, warm, first_flat, later_flat) ==
    RsiSeries(prices, period, AverageSeries(Gains(deltas), period),
              AverageSeries(Losses(deltas), period), warm, first_flat, later_flat)

\* Backtester.calculate_rsi and VectorizedOptimizer._calculate_rsi, the same
\* code: NaN before bar period, 100 where avg_loss is zero.  With fewer than
\* period + 1 prices rsi[period] = ... raises IndexError.
calculate_rsi(prices, period) ==
    RsiOver(prices, period, Deltas(prices), NaN, R(100), R(100))

\* optimized_indicators.calculate_rsi_fast: 50 before bar period, and at bar
\* period too when avg_loss is zero there; 100 where it is zero later
calculate_rsi_fast(prices, period) ==
    IF Len(prices) < period + 1 THEN [i \in 1..Len(prices) |-> R(50)]
    ELSE RsiOver(prices, period, Deltas(prices), R(50), R(50), R(100))

\* IndicatorCache._calculate_rsi: without numba rs is 0 where avg_loss is zero,
\* which makes the RSI 0 there
_calculate_rsi(numba, prices, period) ==
    IF numba THEN calculate_rsi_fast(prices, period)
    ELSE IF Len(prices) < period + 1 THEN [i \in 1..Len(prices) |-> R(50)]
    ELSE RsiOver(prices, period, Deltas(prices), R(50), R(0), R(0))

\* The series IndicatorCache.get_indicator computes on a miss
ComputeIndicator(numba, indicator, period, prices) ==
    IF indicator = SMA THEN _calculate_sma(numba, prices, period)
    ELSE IF indicator = RSI THEN _calculate_rsi(numba, prices, period)
    ELSE prices

\* The series Backtester._metric_at computes itself when the cache module failed to
\* import
LocalIndicator(metric, window, prices) ==
    IF metric = SMA THEN calculate_sma(prices, window)
    ELSE IF metric = RSI THEN calculate_rsi(prices, window)
    ELSE prices

\* The series _metric_at reads when neither cache holds the key yet
FreshSeries(c, metric, window, prices) ==
    IF c.cache THEN ComputeIndicator(c.numba, metric, window, prices)
    ELSE LocalIndicator(metric, window, prices)

\* str.upper().strip() on the ticker spellings of the model
Normalize(t) ==
    CASE t = "spy" -> "SPY"
      [] t = " BIL" -> "BIL"
      [] OTHER -> t

\* Backtester._metric_at for a Backtester whose caches hold nothing stale: both
\* caches memoize FreshSeries per (ticker, metric, window) within the panel
ValueAt(values, i) == IF i <= Len(values) THEN values[i] ELSE None

_metric_at(ctx, ticker, metric, window) ==
    IF ticker \notin DOMAIN ctx.db THEN None
    ELSE ValueAt(FreshSeries(ctx.cfg, metric, window, ctx.db[ticker]), ctx.idx)

-----------------------------------------------------------------------------
(* Conditions *)

\* Backtester._eval_condition: "None", or the comparison as "True" / "False"
Compare(comparator, l, r) ==
    IF comparator \in {"gt", "crossAbove"} THEN FGt(l, r) ELSE FLt(l, r)

Tri(b) == IF b THEN "True" ELSE "False"

\* The outcome for given left and right values: None when either is None
CompareOrNone(comparator, left_val, right_val) ==
    IF left_val = None \/ right_val = None THEN "None"
    ELSE Tri(Compare(comparator, left_val, right_val))

_eval_condition(ctx, cond) ==
    CompareOrNone(cond.comparator,
                  _metric_at(ctx, Normalize(cond.ticker), cond.metric, cond.window),
                  IF cond.expanded
                  THEN _metric_at(ctx, Normalize(cond.rightTicker), cond.rightMetric,
                                  cond.rightWindow)
                  ELSE cond.threshold)

\* The loop body evaluating strictly left to right: an or joins the running value
\* instead of closing the AND-group
CondStepLeftToRight(s, cond_type, cond_result) ==
    IF cond_type \in {"if", "or"}
    THEN [has |-> TRUE, cur |-> IF s.has THEN s.cur \/ cond_result ELSE cond_result,
          ors |-> s.ors]
    ELSE IF cond_type = "and"
    THEN [has |-> TRUE, cur |-> IF s.has THEN s.cur /\ cond_result ELSE cond_result,
          ors |-> s.ors]
    ELSE s

\* One turn of the loop of _eval_conditions on a condition that has data.
\* s = [has, cur, ors]: current_and is set / its value / or_terms
CondStep(s, cond_type, cond_result) ==
    IF cond_type \in {"if", "or"}
    THEN [has |-> TRUE, cur |-> cond_result,
          ors |-> IF s.has THEN Append(s.ors, s.cur) ELSE s.ors]
    ELSE IF cond_type = "and"
    THEN [has |-> TRUE, cur |-> IF s.has THEN s.cur /\ cond_result ELSE cond_result,
          ors |-> s.ors]
    ELSE s

\* any(or_terms) after the loop
AnyTerm(or_terms) == \E j \in 1..Len(or_terms) : or_terms[j]

\* The loop of _eval_conditions over the outcomes rs of the conditions, from the
\* k-th on: a None ends it with False
RECURSIVE CondLoop(_, _, _, _)
CondLoop(conditions, rs, k, s) ==
    IF k > Len(conditions)
    THEN AnyTerm(IF s.has THEN Append(s.ors, s.cur) ELSE s.ors)
    ELSE IF rs[k] = "None" THEN FALSE
    ELSE CondLoop(conditions, rs, k + 1,
                  CondStep(s, conditions[k].type, rs[k] = "True"))

\* Backtester._eval_conditions (its logic argument is never read)
_eval_conditions(ctx, conditions) ==
    IF conditions = <<>> THEN FALSE
    ELSE CondLoop(conditions,
                  [k \in 1..Len(conditions) |-> _eval_condition(ctx, conditions[k])],
                  1, [has |-> FALSE, cur |-> FALSE, ors |-> <<>>])

\* Backtester._eval_item_conditions
_eval_item_conditions(ctx, conditions) == _eval_conditions(ctx, conditions)

-----------------------------------------------------------------------------
(* Strategy trees.  A node is a record with every field the evaluator reads;   *)
(* children maps a slot name to the list of child nodes.                       *)

EmptyAlloc == [t \in {} |-> R(0)]
NullNode == [kind |-> "None"]
SlotOrder == <<"next", "then", "else", "ladder-0", "ladder-1", "ladder-2">>
LadderSlot(k) == IF k = 0 THEN "ladder-0" ELSE IF k = 1 THEN "ladder-1" ELSE "ladder-2"

\* node.get('children', {}).get(slot, [])
ChildrenOf(node, slot) ==
    IF slot \in DOMAIN node.children THEN node.children[slot] ELSE <<>>

Reverse(s) == [k \in 1..Len(s) |-> s[Len(s) + 1 - k]]

\* Backtester._eval_position
IsPosition(p) == p # "" /\ p # "Empty"

\* alloc of _eval_position for the list valid_positions
EqualWeight(valid) ==
    IF valid = <<>> THEN EmptyAlloc
    ELSE [t \in {Normalize(valid[k]) : k \in 1..Len(valid)} |->
             Q(Cardinality({k \in 1..Len(valid) : Normalize(valid[k]) = t}),
               Len(valid))]

_eval_position(node) == EqualWeight(SelectSeq(node.positions, IsPosition))

\* Backtester._collect_position_tickers
RECURSIVE _collect_position_tickers(_)
RECURSIVE CollectList(_)
RECURSIVE CollectSlots(_, _)
CollectList(children) ==
    IF children = <<>> THEN <<>>
    ELSE (IF children[1] = NullNode THEN <<>> ELSE _collect_position_tickers(children[1]))
         \o CollectList(Tail(children))
CollectSlots(node, k) ==
    IF k > Len(SlotOrder) THEN <<>>
    ELSE CollectList(ChildrenOf(node, SlotOrder[k])) \o CollectSlots(node, k + 1)
NormalizeAll(ps) == [k \in 1..Len(ps) |-> Normalize(ps[k])]

_collect_position_tickers(node) ==
    (IF node.kind = "position"
     THEN NormalizeAll(SelectSeq(node.positions, IsPosition))
     ELSE <<>>)
    \o CollectSlots(node, 1)

\* list.sort(key=value) of CPython on a short list: the leading run (reversed when
\* strictly descending), then binary insertion of the rest; only < is ever asked
ItemLt(a, b) == FLt(a.value, b.value)

RECURSIVE RunEnd(_, _, _)
RunEnd(s, k, desc) ==
    IF k = Len(s) THEN k
    ELSE IF ItemLt(s[k + 1], s[k]) = desc THEN RunEnd(s, k + 1, desc)
    ELSE k

Mid(l, r) == l + ((r - l) \div 2)

RECURSIVE BinPos(_, _, _, _)
BinPos(sorted, pivot, l, r) ==
    IF l >= r THEN l
    ELSE IF ItemLt(pivot, sorted[Mid(l, r) + 1]) THEN BinPos(sorted, pivot, l, Mid(l, r))
    ELSE BinPos(sorted, pivot, Mid(l, r) + 1, r)

InsertAt(sorted, at, item) ==
    SubSeq(sorted, 1, at) \o <<item>> \o SubSeq(sorted, at + 1, Len(sorted))

RECURSIVE BinarySort(_, _)
BinarySort(sorted, rest) ==
    IF rest = <<>> THEN sorted
    ELSE BinarySort(InsertAt(sorted, BinPos(sorted, rest[1], 0, Len(sorted)), rest[1]),
                    Tail(rest))

\* The leading run of n items, put in ascending order, then the rest inserted
SortFromRun(s, n, desc) ==
    BinarySort(IF desc THEN Reverse(SubSeq(s, 1, n)) ELSE SubSeq(s, 1, n),
               SubSeq(s, n + 1, Len(s)))

RunFrom(s, desc) == SortFromRun(s, RunEnd(s, 2, desc), desc)

ListSort(s) == IF Len(s) < 2 THEN s ELSE RunFrom(s, ItemLt(s[2], s[1]))

\* list.sort(key=value, reverse=True): reversed before and after, which keeps it stable
ListSortReverse(s) == Reverse(ListSort(Reverse(s)))

\* Blend factor of Backtester._eval_scaling (0 = all then, 1 = all else)
BlendFactor(val, scale_from, scale_to) ==
    IF val # None /\ scale_from # scale_to
    THEN IF FLt(scale_from, scale_to)
         THEN PyMax(R(0), PyMin(R(1), FDiv(FSub(val, scale_from),
                                           FSub(scale_to, scale_from))))
         ELSE PyMax(R(0), PyMin(R(1), FDiv(FSub(scale_from, val),
                                           FSub(scale_from, scale_to))))
    ELSE R(0)

\* The blend loop with the then-side weighted by (1 + blend)
BlendAllocsSignSlip(then_alloc, else_alloc, blend) ==
    [t \in DOMAIN then_alloc \cup DOMAIN else_alloc |->
        FAdd(IF t \in DOMAIN then_alloc
             THEN FMul(then_alloc[t], FAdd(R(1), blend)) ELSE R(0),
             IF t \in DOMAIN else_alloc
             THEN FMul(else_alloc[t], blend) ELSE R(0))]

\* The blend loop of _eval_scaling
BlendAllocs(then_alloc, else_alloc, blend) ==
    [t \in DOMAIN then_alloc \cup DOMAIN else_alloc |->
        FAdd(IF t \in DOMAIN then_alloc
             THEN FMul(then_alloc[t], FSub(R(1), blend)) ELSE R(0),
             IF t \in DOMAIN else_alloc
             THEN FMul(else_alloc[t], blend) ELSE R(0))]

BlendResult(then_alloc, else_r, blend) ==
    [alloc |-> BlendAllocs(then_alloc, else_r.alloc, blend), st |-> else_r.st]

\* The equal-weight merge of _eval_children
MergeEqual(child_allocs) ==
    LET weight == Q(1, Len(child_allocs))
        names == UNION {DOMAIN child_allocs[k] : k \in 1..Len(child_allocs)}
        Part(k, t) == IF t \in DOMAIN child_allocs[k]
                      THEN FMul(child_allocs[k][t], weight) ELSE R(0)
    IN [t \in names |-> SumSeq([k \in 1..Len(child_allocs) |-> Part(k, t)])]

\* The state machine of _eval_altExit
AltExitNext(is_entered, entry_met, exit_met) ==
    IF ~is_entered /\ entry_met THEN TRUE
    ELSE IF is_entered /\ exit_met THEN FALSE
    ELSE is_entered

\* ctx['altExit_state'].get(node_id, False)
StateGet(st, node_id) == IF node_id \in DOMAIN st THEN st[node_id] ELSE FALSE
StatePut(st, node_id, v) ==
    [k \in DOMAIN st \cup {node_id} |-> IF k = node_id THEN v ELSE st[k]]

\* The quantifier of _eval_numbered with atMost read as "fewer than n"
QuantifierOkFewer(quantifier, n_true, n, n_items) ==
    CASE quantifier = "any" -> n_true >= 1
      [] quantifier = "all" -> n_true = n_items
      [] quantifier = "none" -> n_true = 0
      [] quantifier = "exactly" -> n_true = n
      [] quantifier = "atLeast" -> n_true >= n
      [] quantifier = "atMost" -> n_true < n
      [] OTHER -> FALSE

\* The quantifier of _eval_numbered
QuantifierOk(quantifier, n_true, n, n_items) ==
    CASE quantifier = "any" -> n_true >= 1
      [] quantifier = "all" -> n_true = n_items
      [] quantifier = "none" -> n_true = 0
      [] quantifier = "exactly" -> n_true = n
      [] quantifier = "atLeast" -> n_true >= n
      [] quantifier = "atMost" -> n_true <= n
      [] OTHER -> FALSE

\* n_true of _eval_numbered: items without conditions are skipped
CountTrue(ctx, items) ==
    Cardinality({k \in 1..Len(items) :
                    /\ items[k].conditions # <<>>
                    /\ _eval_item_conditions(ctx, items[k].conditions)})

\* child_values of _eval_function, before sorting
NotNone(v) == v # None

\* The entry of child_values for one child, given the metric values of its tickers
\* that are not None: none when there is no value
ChildEntry(child, values) ==
    IF values = <<>> THEN <<>>
    ELSE <<[child |-> child, value |-> FDiv(SumSeq(values), R(Len(values)))]>>

MetricValues(ctx, node, tickers) ==
    SelectSeq([k \in 1..Len(tickers) |->
                  _metric_at(ctx, tickers[k], node.metric, node.window)], NotNone)

RECURSIVE ChildValues(_, _, _)
ChildValues(ctx, node, children) ==
    IF children = <<>> THEN <<>>
    ELSE ChildEntry(children[1],
                    MetricValues(ctx, node,
                                 IF children[1] = NullNode THEN <<>>
                                 ELSE _collect_position_tickers(children[1])))
         \o ChildValues(ctx, node, Tail(children))

\* s[:pick_n] of Python, a negative pick_n counting from the end
SliceTo(s, pick_n) ==
    IF pick_n >= 0 THEN SubSeq(s, 1, IF pick_n < Len(s) THEN pick_n ELSE Len(s))
    ELSE SubSeq(s, 1, Max2(0, Len(s) + pick_n))

ChildOfAll(picked) == [k \in 1..Len(picked) |-> picked[k].child]

\* The sort of _eval_function with the rank ignored
SortByRankAscending(child_values, rank) == ListSort(child_values)

SortByRank(child_values, rank) ==
    IF rank = "bottom" THEN ListSort(child_values) ELSE ListSortReverse(child_values)

\* picked_children of _eval_function
PickedChildren(ctx, node) ==
    ChildOfAll(SliceTo(SortByRank(ChildValues(ctx, node, ChildrenOf(node, "next")),
                                  node.rank),
                       node.bottom))

NotNull(c) == c # NullNode
NotEmpty(a) == DOMAIN a # {}

AddResult(acc, r) == [allocs |-> Append(acc.allocs, r.alloc), st |-> r.st]

\* The merge of _eval_children over the non-empty child allocations
MergeChildren(weighting, child_allocs) ==
    IF child_allocs = <<>> THEN EmptyAlloc
    ELSE IF weighting = "equal" THEN MergeEqual(child_allocs)
    ELSE child_allocs[1]

CombineChildren(weighting, r) ==
    [alloc |-> MergeChildren(weighting, SelectSeq(r.allocs, NotEmpty)), st |-> r.st]

(* The evaluator proper.  Every evaluation returns [alloc, st]: the allocation *)
(* and ctx['altExit_state'] as the evaluation leaves it.                       *)

RECURSIVE evaluate_node(_, _, _)
RECURSIVE EvalAll(_, _, _)

\* [self.evaluate_node(ctx, child) for child in valid_children], the allocations
\* collected in acc
EvalAll(ctx, acc, nodes) ==
    IF nodes = <<>> THEN acc
    ELSE EvalAll(ctx, AddResult(acc, evaluate_node(ctx, acc.st, nodes[1])),
                 Tail(nodes))

\* Backtester._eval_children
_eval_children(ctx, st, parent, children) ==
    CombineChildren(parent.weighting,
                    EvalAll(ctx, [allocs |-> <<>>, st |-> st],
                            SelectSeq(children, NotNull)))

\* Backtester._eval_basic
_eval_basic(ctx, st, node) == _eval_children(ctx, st, node, ChildrenOf(node, "next"))

\* Backtester._eval_indicator
_eval_indicator(ctx, st, node) ==
    _eval_children(ctx, st, node,
                   ChildrenOf(node, IF _eval_conditions(ctx, node.conditions)
                                    THEN "then" ELSE "else"))

\* Backtester._eval_function
_eval_function(ctx, st, node) ==
    IF ChildrenOf(node, "next") = <<>> THEN [alloc |-> EmptyAlloc, st |-> st]
    ELSE _eval_children(ctx, st, node, PickedChildren(ctx, node))

\* Backtester._eval_scaling
ScalingElse(ctx, node, then_r, blend) ==
    BlendResult(then_r.alloc,
                _eval_children(ctx, then_r.st, node, ChildrenOf(node, "else")), blend)

_eval_scaling(ctx, st, node) ==
    ScalingElse(ctx, node,
                _eval_children(ctx, st, node, ChildrenOf(node, "then")),
                BlendFactor(_metric_at(ctx, Normalize(node.scaleTicker),
                                       node.scaleMetric, node.scaleWindow),
                            node.scaleFrom, node.scaleTo))

\* Backtester._eval_altExit
AltExitForward(ctx, st, node, new_state) ==
    _eval_children(ctx, StatePut(st, node.id, new_state), node,
                   ChildrenOf(node, IF new_state THEN "then" ELSE "else"))

_eval_altExit(ctx, st, node) ==
    AltExitForward(ctx, st, node,
                   AltExitNext(StateGet(st, node.id),
                               _eval_conditions(ctx, node.entryConditions),
                               _eval_conditions(ctx, node.exitConditions)))

\* Backtester._eval_numbered
\* The slot _eval_numbered forwards to
NumberedSlot(numbered, n_true) ==
    IF numbered.quantifier = "ladder" THEN LadderSlot(n_true)
    ELSE IF QuantifierOk(numbered.quantifier, n_true, numbered.n, Len(numbered.items))
    THEN "then"
    ELSE "else"

_eval_numbered(ctx, st, node) ==
    _eval_children(ctx, st, node,
                   ChildrenOf(node, NumberedSlot(node.numbered,
                                                 CountTrue(ctx, node.numbered.items))))

\* Backtester.evaluate_node: the dispatch on kind; any other kind gives {}
evaluate_node(ctx, st, node) ==
    CASE node = NullNode -> [alloc |-> EmptyAlloc, st |-> st]
      [] node.kind = "position" -> [alloc |-> _eval_position(node), st |-> st]
      [] node.kind = "indicator" -> _eval_indicator(ctx, st, node)
      [] node.kind = "function" -> _eval_function(ctx, st, node)
      [] node.kind = "basic" -> _eval_basic(ctx, st, node)
      [] node.kind = "scaling" -> _eval_scaling(ctx, st, node)
      [] node.kind = "altExit" -> _eval_altExit(ctx, st, node)
      [] node.kind = "numbered" -> _eval_numbered(ctx, st, node)
      [] OTHER -> [alloc |-> EmptyAlloc, st |-> st]

\* ctx['altExit_state'] as evaluate_tree creates it
FreshAltExitState == [k \in {} |-> FALSE]

\* Backtester.evaluate_tree: a new ctx, with a new altExit_state, for every call
evaluate_tree(node, d, i, c) ==
    evaluate_node([db |-> d, idx |-> i, cfg |-> c], FreshAltExitState, node)

-----------------------------------------------------------------------------
(* Inputs of a backtest: trees, panels, options *)

Cond(type, ticker, metric, window, comparator, threshold) ==
    [type |-> type, ticker |-> ticker, metric |-> metric, window |-> window,
     comparator |-> comparator, threshold |-> threshold, expanded |-> FALSE,
     rightTicker |-> "SPY", rightMetric |-> metric, rightWindow |-> window]

CondX(type, ticker, metric, window, comparator, rightTicker) ==
    [type |-> type, ticker |-> ticker, metric |-> metric, window |-> window,
     comparator |-> comparator, threshold |-> R(0), expanded |-> TRUE,
     rightTicker |-> rightTicker, rightMetric |-> metric, rightWindow |-> window]

NoChildren == [s \in {} |-> <<>>]

Node(kind, id, children) ==
    [kind |-> kind, id |-> id, weighting |-> "equal", positions |-> <<>>,
     conditions |-> <<>>, metric |-> PRICE, window |-> 1, bottom |-> 1,
     rank |-> "bottom", scaleTicker |-> "SPY", scaleMetric |-> PRICE,
     scaleWindow |-> 1, scaleFrom |-> R(0), scaleTo |-> R(100),
     entryConditions |-> <<>>, exitConditions |-> <<>>,
     numbered |-> [items |-> <<>>, quantifier |-> "all", n |-> 0],
     children |-> children]

Pos(ps) == [Node("position", "p", NoChildren) EXCEPT !.positions = ps]

PosSPY == Pos(<<"SPY">>)
PosBIL == Pos(<<"BIL">>)
PosBoth == Pos(<<"spy", "BIL">>)
PosDup == Pos(<<"SPY", "spy", " BIL">>)
PosEmpty == Pos(<<"Empty">>)

\* SPY closed above 1 / BIL closed below 2 / SMA(2) of SPY above 1 / a ticker the
\* panel does not hold / SPY closed above BIL
CondA(type) == Cond(type, "SPY", PRICE, 1, "gt", R(1))
CondB(type) == Cond(type, "BIL", PRICE, 1, "lt", R(2))
CondS(type) == Cond(type, "SPY", SMA, 2, "crossAbove", R(1))
CondZ(type) == Cond(type, "ZZZ", PRICE, 1, "gt", R(0))
CondAB(type) == CondX(type, "SPY", PRICE, 1, "gt", "BIL")

SimCondLists ==
    { <<CondA("if")>>, <<CondB("if")>>, <<CondAB("if")>>,
      <<CondA("if"), CondB("and")>>,
      <<CondS("if"), CondA("or")>>,
      <<CondZ("if"), CondA("or")>> }

ThenElse(t, e) == [then |-> t, else |-> e]

IndicatorTrees ==
    { [Node("indicator", "i", ThenElse(<<PosSPY>>, e)) EXCEPT !.conditions = c] :
        c \in SimCondLists, e \in {<<PosBIL>>, <<>>} }

AltExitNode(id, entry, exit, e) ==
    [Node("altExit", id, ThenElse(<<PosSPY>>, e))
        EXCEPT !.entryConditions = entry, !.exitConditions = exit]

AltExitTrees ==
    { AltExitNode("a", entry, exit, e) :
        entry \in {<<CondA("if")>>, <<CondB("if")>>},
        exit \in {<<>>, <<CondA("if")>>, <<CondB("if")>>},
        e \in {<<PosBIL>>, <<>>} }

Gauges == { <<"SPY", PRICE, 1>>, <<"BIL", PRICE, 1>>, <<"ZZZ", PRICE, 1>>,
            <<"SPY", SMA, 2>> }
Ranges == { <<R(1), R(2)>>, <<R(0), R(4)>>, <<R(2), R(1)>>, <<R(2), R(2)>> }

ScalingNode(g, r, e) ==
    [Node("scaling", "s", ThenElse(<<PosSPY>>, e))
        EXCEPT !.scaleTicker = g[1], !.scaleMetric = g[2], !.scaleWindow = g[3],
               !.scaleFrom = r[1], !.scaleTo = r[2]]

ScalingTrees ==
    { ScalingNode(g, r, e) : g \in Gauges, r \in Ranges, e \in {<<PosBIL>>, <<>>} }

FunctionTrees ==
    { [Node("function", "f", [next |-> kids])
          EXCEPT !.rank = rank, !.bottom = pick_n, !.metric = PRICE, !.window = 1] :
        kids \in {<<PosSPY, PosBIL>>, <<PosBIL, NullNode, PosBoth, PosSPY>>},
        rank \in {"top", "bottom"}, pick_n \in {0, 1, 2} }

NumberedKids ==
    [s \in {"then", "else", "ladder-0", "ladder-1", "ladder-2"} |->
        CASE s = "then" -> <<PosSPY>>
          [] s = "else" -> <<PosBIL>>
          [] s = "ladder-0" -> <<>>
          [] s = "ladder-1" -> <<PosSPY>>
          [] OTHER -> <<PosBoth>>]

NumberedTrees ==
    { [Node("numbered", "q", NumberedKids)
          EXCEPT !.numbered = [items |-> <<[conditions |-> <<CondA("if")>>],
                                            [conditions |-> <<CondB("if")>>]>>,
                               quantifier |-> q, n |-> 1]] :
        q \in {"any", "all", "none", "exactly", "atLeast", "atMost", "ladder"} }

\* A node of a kind the evaluator does not know
UnknownNode == Node("call", "u", [next |-> <<PosSPY>>])

BasicTrees ==
    { [Node("basic", "b", [next |-> kids]) EXCEPT !.weighting = w] :
        kids \in { <<PosSPY>>, <<PosSPY, PosBIL>>, <<PosEmpty, PosDup>>,
                   <<ScalingNode(<<"SPY", PRICE, 1>>, <<R(0), R(4)>>, <<>>), PosBIL>>,
                   <<AltExitNode("a", <<CondA("if")>>, <<>>, <<PosBIL>>),
                     AltExitNode("a", <<CondB("if")>>, <<CondA("if")>>, <<PosBIL>>)>>,
                   <<UnknownNode, PosBIL>> },
        w \in {"equal", "defined"} }

Trees ==
    {PosSPY, PosBoth, PosDup, PosEmpty, UnknownNode}
        \cup BasicTrees \cup IndicatorTrees \cup AltExitTrees \cup ScalingTrees
        \cup FunctionTrees \cup NumberedTrees

\* Whether a tree holds a node of a kind outside the seven kinds
KnownKinds == {"position", "basic", "indicator", "function", "scaling", "altExit",
               "numbered"}

RECURSIVE HasUnknownKind(_)
HasUnknownKind(node) ==
    /\ node # NullNode
    /\ \/ node.kind \notin KnownKinds
       \/ \E s \in DOMAIN node.children :
             \E k \in 1..Len(node.children[s]) : HasUnknownKind(node.children[s][k])

RECURSIVE HasKind(_, _)
HasKind(node, kind) ==
    /\ node # NullNode
    /\ \/ node.kind = kind
       \/ \E s \in DOMAIN node.children :
             \E k \in 1..Len(node.children[s]) : HasKind(node.children[s][k], kind)

\* str.upper() on the ticker spellings of the model (collect_tickers does not strip)
Upper(t) == IF t = "spy" THEN "SPY" ELSE t

\* Backtester.collect_tickers, as a set (it returns list(set(...)))
RECURSIVE collect_tickers(_)
collect_tickers(node) ==
    IF node = NullNode THEN {}
    ELSE (IF node.kind = "position"
          THEN {Upper(node.positions[k]) : k \in {j \in 1..Len(node.positions) :
                    node.positions[j] # "" /\ node.positions[j] # "Empty"}}
          ELSE {})
         \cup UNION { UNION { collect_tickers(node.children[s][k]) :
                                 k \in 1..Len(node.children[s]) } :
                      s \in DOMAIN node.children }

\* The tickers the bar store has rows for
StoredTickers == {"SPY", "BIL"}

\* The tickers run_backtest loads: the position tickers and SPY; a ticker named
\* only by a condition or a gauge is not loaded
LoadedTickers(t) == (collect_tickers(t) \cup {"SPY"}) \cap StoredTickers

\* Panels as build_price_database leaves them after ffill().bfill(): a column is
\* finite throughout, or NaN throughout (a ticker with no row on a common date).
\* The dates are those of SPY, whose column is taken finite.
Prices == {R(1), R(2)}
Columns(T) == [1..T -> Prices]
NaNColumn(T) == [k \in 1..T |-> NaN]

PanelsFor(t) ==
    UNION { { [u \in LoadedTickers(t) |-> IF u = "SPY" THEN spy ELSE bil] :
                spy \in Columns(T), bil \in Columns(T) \cup {NaNColumn(T)} } :
            T \in MIN_DATES..MaxBars }

\* The three ways the imports of backtester.py and indicator_cache.py can end
Configs == { [cache |-> TRUE, numba |-> TRUE], [cache |-> TRUE, numba |-> FALSE],
             [cache |-> FALSE, numba |-> FALSE] }

CostChoices == {0, 5000}

-----------------------------------------------------------------------------
(* Backtester.simulate, one bar per step, inside run_backtest *)

NBars == Len(db["SPY"])

\* The two valuation loops of simulate: holdings marked at the closes of bar i
ValueOf(h, closes, i, priced) ==
    SumFn([t \in priced |-> FMul(h[t], closes[t][i])], priced)

PortfolioValue(h, closes, i) ==
    ValueOf(h, closes, i, {t \in DOMAIN h : t \in DOMAIN closes /\ i <= Len(closes[t])})

\* cost_multiplier = 1.0 - (cost_bps / 10000.0)
CostMultiplier(bps) == FSub(R(1), Q(bps, BPS_DENOM))

\* current_equity of simulate
ValueOrEquity(h, portfolio_value, eq) ==
    IF DOMAIN h # {} /\ FGt(portfolio_value, R(0)) THEN portfolio_value ELSE eq

CurrentEquity(h, closes, i, eq) == ValueOrEquity(h, PortfolioValue(h, closes, i), eq)

\* new_holdings of the rebalance branch of simulate
NewHoldings(allocation, closes, i, current_equity, bps) ==
    [t \in {u \in DOMAIN allocation :
               /\ u \in DOMAIN closes /\ i <= Len(closes[u])
               /\ FGt(closes[u][i], R(0))} |->
        FDiv(FMul(FMul(current_equity, allocation[t]), CostMultiplier(bps)),
             closes[t][i])]

\* equity_value taken before the rebalance: the cost of the bar is not charged
EquityValueBeforeCost(h, closes, i, current_equity) == current_equity

\* equity_value of simulate
EquityValue(h, closes, i, current_equity) ==
    IF DOMAIN h # {} THEN PortfolioValue(h, closes, i) ELSE current_equity

SimInit ==
    /\ tree \in Trees
    /\ db \in PanelsFor(tree)
    /\ cfg \in Configs
    /\ cost_bps \in CostChoices
    /\ pc = "sim"
    /\ idx = 0
    /\ equity = R(START_EQUITY)
    /\ holdings = EmptyAlloc
    /\ prev_allocation = EmptyAlloc
    /\ equity_curve = <<>>
    /\ allocations = <<>>
    /\ altExit_state = FreshAltExitState
    /\ rebalanced = FALSE
    /\ result = "none"

\* holdings bought anew at every bar, whether or not the allocation changed
RebalanceEveryBar(allocation, prev, h, closes, i, current_equity, bps) ==
    NewHoldings(allocation, closes, i, current_equity, bps)

\* holdings after the rebalance step of bar i
Rebalance(allocation, prev, h, closes, i, current_equity, bps) ==
    IF allocation # prev THEN NewHoldings(allocation, closes, i, current_equity, bps)
    ELSE h

\* The body of the loop of simulate for bar i, given what evaluate_tree returned
\* and current_equity
BarStep(i, ev, current_equity) ==
    /\ allocations' = Append(allocations, ev.alloc)
    /\ altExit_state' = ev.st
    /\ holdings' = Rebalance(ev.alloc, prev_allocation, holdings, db, i,
                             current_equity, cost_bps)
    /\ prev_allocation' = IF ev.alloc # prev_allocation THEN ev.alloc
                          ELSE prev_allocation
    /\ rebalanced' = (ev.alloc # prev_allocation)
    /\ equity' = EquityValue(holdings', db, i, current_equity)
    /\ equity_curve' = Append(equity_curve, equity')
    /\ idx' = i

\* One turn of the loop of simulate
SimBar ==
    /\ pc = "sim"
    /\ idx < NBars
    /\ BarStep(idx + 1, evaluate_tree(tree, db, idx + 1, cfg),
               CurrentEquity(holdings, db, idx + 1, equity))
    /\ UNCHANGED <<tree, db, cfg, cost_bps, pc, result>>

\* run_backtest after simulate: the metrics are computed and the result returned
SimFinish ==
    /\ pc = "sim"
    /\ idx = NBars
    /\ pc' = "done"
    /\ result' = "ok"
    /\ UNCHANGED <<tree, db, cfg, cost_bps, idx, equity, holdings, prev_allocation,
                   equity_curve, allocations, altExit_state, rebalanced>>

-----------------------------------------------------------------------------
(* The parts of the state a specification does not use *)

SimIdle ==
    /\ tree = NullNode /\ db = EmptyAlloc /\ cfg = [cache |-> TRUE, numba |-> TRUE]
    /\ cost_bps = 0 /\ pc = "idle" /\ idx = 0 /\ equity = R(START_EQUITY)
    /\ holdings = EmptyAlloc /\ prev_allocation = EmptyAlloc
    /\ equity_curve = <<>> /\ allocations = <<>>
    /\ altExit_state = FreshAltExitState /\ rebalanced = FALSE /\ result = "none"
CondIdle == conds = <<>> /\ condRow = EmptyAlloc /\ condOut = "none"
PanelIdle ==
    /\ raw = EmptyAlloc /\ req = [tickers |-> {}, indicator_tickers |-> {}]
    /\ panel = [status |-> "none"] /\ verdict = "none"
CacheIdle ==
    /\ use_numba = TRUE /\ icache = EmptyAlloc /\ cprices = EmptyAlloc
    /\ lastGet = [called |-> FALSE] /\ nBacktests = 0
SweepIdle == branches = <<>> /\ sweepData = TRUE /\ sweepOut = [status |-> "none"]
GenIdle == ranges = <<>> /\ genOut = [status |-> "none"]
NoMetrics == [status |-> "none"]
SplitIdle ==
    /\ db_dates = <<>> /\ split_config = [enabled |-> FALSE] /\ NUMBA_AVAILABLE = TRUE
    /\ split = [status |-> "none"] /\ metrics = NoMetrics /\ is_metrics = NoMetrics
    /\ oos_metrics = NoMetrics
WorkerIdle ==
    /\ stdin = <<>> /\ stdout = <<>> /\ task = [bound |-> FALSE] /\ consumed = <<>>
    /\ wstate = "stopped"
NoCache == [max_size |-> 0, cache |-> <<>>, hits |-> 0, misses |-> 0]
RcIdle == rcache = NoCache /\ stored = <<>> /\ got = [called |-> FALSE]
Idle == [pc |-> "idle"]
\* every variable of lateVars but those named in S has its idle value
LateIdleBut(S) ==
    /\ IF "forge" \in S THEN TRUE ELSE forge = Idle
    /\ IF "pdc" \in S THEN TRUE ELSE pdc = Idle
    /\ IF "roll" \in S THEN TRUE ELSE roll = Idle
    /\ IF "fx" \in S THEN TRUE ELSE fx = Idle
    /\ IF "enum" \in S THEN TRUE ELSE enum = Idle
    /\ IF "applied" \in S THEN TRUE ELSE applied = Idle
    /\ IF "boot" \in S THEN TRUE ELSE boot = Idle
    /\ IF "vec" \in S THEN TRUE ELSE vec = Idle
LateIdle == LateIdleBut({})
EarlyIdle == GenIdle /\ SplitIdle /\ WorkerIdle /\ RcIdle
MoreIdle == EarlyIdle /\ LateIdle
CoreIdle == SimIdle /\ CondIdle /\ PanelIdle /\ CacheIdle /\ SweepIdle
coreVars == <<simVars, condVars, panelVars, cacheVars, sweepVars>>
earlyVars == <<coreVars, genVars, splitVars, workerVars, rcVars>>

\* every variable of lateVars but those named in S stays as it is
KeepLate(S) ==
    /\ IF "forge" \in S THEN TRUE ELSE UNCHANGED forge
    /\ IF "pdc" \in S THEN TRUE ELSE UNCHANGED pdc
    /\ IF "roll" \in S THEN TRUE ELSE UNCHANGED roll
    /\ IF "fx" \in S THEN TRUE ELSE UNCHANGED fx
    /\ IF "enum" \in S THEN TRUE ELSE UNCHANGED enum
    /\ IF "applied" \in S THEN TRUE ELSE UNCHANGED applied
    /\ IF "boot" \in S THEN TRUE ELSE UNCHANGED boot
    /\ IF "vec" \in S THEN TRUE ELSE UNCHANGED vec

-----------------------------------------------------------------------------
(* Specification of one backtest: run_backtest on an accepted panel *)

InitSim == SimInit /\ CondIdle /\ PanelIdle /\ CacheIdle /\ SweepIdle /\ MoreIdle

NextSim ==
    \/ SimBar /\ UNCHANGED <<condVars, panelVars, cacheVars, sweepVars, moreVars>>
    \/ SimFinish /\ UNCHANGED <<condVars, panelVars, cacheVars, sweepVars, moreVars>>

SpecSim == InitSim /\ [][NextSim]_vars

-----------------------------------------------------------------------------
(* Specification of panel construction: build_price_database on the rows of the *)
(* bar store, then the acceptance test of run_backtest.                          *)

Dates == 1..MaxDates

\* The rows of a ticker: a close per date, None where the ticker has no row
RowSets == [Dates -> Prices \cup {None}]

HasRows(rows) == \E d \in Dates : rows[d] # None
RowDates(rows) == {d \in Dates : rows[d] # None}

\* sorted(list(common_dates))
RECURSIVE SortedDates(_)
SortedDates(S) ==
    IF S = {} THEN <<>>
    ELSE <<CHOOSE d \in S : \A e \in S : d <= e>>
         \o SortedDates(S \ {CHOOSE d \in S : \A e \in S : d <= e})

\* df_indexed.reindex(dates)[col_name]: NaN on a date without a row
Reindex(rows, dates) ==
    [k \in 1..Len(dates) |-> IF rows[dates[k]] = None THEN NaN ELSE rows[dates[k]]]

\* Series.ffill(): the last value that is not NaN at or before k
LastValid(col, k) ==
    IF \E j \in 1..k : IsNum(col[j])
    THEN col[CHOOSE j \in 1..k : IsNum(col[j]) /\ \A i \in (j + 1)..k : ~IsNum(col[i])]
    ELSE NaN
FFill(col) == [k \in 1..Len(col) |-> LastValid(col, k)]

\* Series.bfill(): the first value that is not NaN at or after k
NextValid(col, k) ==
    IF \E j \in k..Len(col) : IsNum(col[j])
    THEN col[CHOOSE j \in k..Len(col) : IsNum(col[j]) /\ \A i \in k..(j - 1) : ~IsNum(col[i])]
    ELSE NaN
BFill(col) == [k \in 1..Len(col) |-> NextValid(col, k)]

\* valid_mask: the rows at which every ticker has a close that is not NaN
ValidRows(close, n) == {k \in 1..n : \A t \in DOMAIN close : IsNum(close[t][k])}

\* db[...][first_valid:]
DropBefore(col, first_valid) == SubSeq(col, first_valid, Len(col))

\* The trimming at the end of build_price_database: only when some row is valid
TrimTo(dates, close, first_valid) ==
    [status |-> "db", dates |-> DropBefore(dates, first_valid),
     close |-> [t \in DOMAIN close |-> DropBefore(close[t], first_valid)]]

Trim(dates, close, valid) ==
    IF valid # {} THEN TrimTo(dates, close, CHOOSE k \in valid : \A j \in valid : k <= j)
    ELSE [status |-> "db", dates |-> dates, close |-> close]

TrimValid(dates, close) == Trim(dates, close, ValidRows(close, Len(dates)))

AlignedCloses(store, loaded, dates) ==
    [t \in loaded |-> BFill(FFill(Reindex(store[t], dates)))]

BuildAligned(store, loaded, dates) ==
    TrimValid(dates, AlignedCloses(store, loaded, dates))

\* common_dates over the intersection tickers
CommonDates(store, over) == {d \in Dates : \A t \in over : store[t][d] # None}

BuildOver(store, loaded, common_dates) ==
    IF Cardinality(common_dates) < MIN_DATES THEN [status |-> "None"]
    ELSE BuildAligned(store, loaded, SortedDates(common_dates))

BuildFrom(store, loaded, intersection_tickers) ==
    BuildOver(store, loaded,
              CommonDates(store, IF intersection_tickers = {} THEN loaded
                                 ELSE intersection_tickers))

\* Backtester.build_price_database
build_price_database(store, tickers, indicator_tickers) ==
    IF {t \in tickers : HasRows(store[t])} = {} THEN [status |-> "None"]
    ELSE BuildFrom(store, {t \in tickers : HasRows(store[t])},
                   {t \in indicator_tickers : t \in tickers /\ HasRows(store[t])})

\* What run_backtest asks for: a tree that holds BIL, with conditions on SPY alone
\* or on SPY and BIL (SPY is always added to both lists)
Requests ==
    { [tickers |-> {"SPY", "BIL"}, indicator_tickers |-> {"SPY"}],
      [tickers |-> {"SPY", "BIL"}, indicator_tickers |-> {"SPY", "BIL"}] }

PanelInit ==
    /\ raw \in [StoredTickers -> RowSets]
    /\ req \in Requests
    /\ panel = [status |-> "none"]
    /\ verdict = "none"

\* run_backtest calls build_price_database
PanelBuild ==
    /\ panel.status = "none"
    /\ panel' = build_price_database(raw, req.tickers, req.indicator_tickers)
    /\ UNCHANGED <<raw, req, verdict>>

\* run_backtest: 'Not enough overlapping price data', or on to simulate
PanelCheck ==
    /\ panel.status # "none"
    /\ verdict = "none"
    /\ verdict' = IF panel.status = "None" THEN "error"
                  ELSE IF Len(panel.dates) < MIN_DATES THEN "error"
                  ELSE "accepted"
    /\ UNCHANGED <<raw, req, panel>>

InitPanel == SimIdle /\ CondIdle /\ PanelInit /\ CacheIdle /\ SweepIdle /\ MoreIdle

NextPanel ==
    \/ PanelBuild /\ UNCHANGED <<simVars, condVars, cacheVars, sweepVars, moreVars>>
    \/ PanelCheck /\ UNCHANGED <<simVars, condVars, cacheVars, sweepVars, moreVars>>

SpecPanel == InitPanel /\ [][NextPanel]_vars

-----------------------------------------------------------------------------
(* Properties of panel construction *)

FiniteEverywhere(close) ==
    \A t \in DOMAIN close : \A k \in 1..Len(close[t]) : IsNum(close[t][k])

\* No row at which every ticker has a finite close, or fewer than 3 rows left
InsufficientData ==
    \/ panel.status = "None"
    \/ /\ panel.status = "db"
       /\ \/ ValidRows(panel.close, Len(panel.dates)) = {}
          \/ Len(panel.dates) < MIN_DATES

\* C10: a panel accepted for simulation has a finite close for every ticker at
\* every index, and a panel with no row at which all tickers have a finite close,
\* or with fewer than 3 rows, makes the backtest fail instead.
C10_AcceptedPanelIsFinite ==
    /\ verdict = "accepted" => FiniteEverywhere(panel.close)
    /\ (verdict # "none" /\ InsufficientData) => verdict = "error"

-----------------------------------------------------------------------------
(* Specification of the indicator cache of a Backtester that runs one backtest   *)
(* after another, as the persistent worker's does.                               *)

\* db['close'] of a backtest: SPY over the bars of its panel
CachePanels ==
    UNION { { [t \in {"SPY"} |-> col] : col \in Columns(T) } : T \in MIN_DATES..MaxBars }

\* The (indicator, period) pairs the trees ask for
CacheRequests == { <<SMA, 2>>, <<PRICE, 1>> }

\* cache_key = f"{ticker}:{indicator}:{period}"
CacheKey(ticker, indicator, period) == <<ticker, indicator, period>>

CacheInit ==
    /\ use_numba \in BOOLEAN
    /\ icache = EmptyAlloc
    /\ cprices = EmptyAlloc
    /\ lastGet = [called |-> FALSE]
    /\ nBacktests = 0

\* run_backtest builds the panel of the next backtest
CacheStartBacktest ==
    /\ nBacktests < MaxBacktests
    /\ cprices' \in CachePanels
    /\ nBacktests' = nBacktests + 1
    /\ UNCHANGED <<use_numba, icache, lastGet>>

\* The cache after get_indicator computed values on a miss
CacheStore(cache, key, values) ==
    IF Cardinality(DOMAIN cache) < MAX_CACHE_SIZE
    THEN [k \in DOMAIN cache \cup {key} |-> IF k = key THEN values ELSE cache[k]]
    ELSE cache

\* What get_indicator returns for the key
CacheLookup(cache, key, indicator, period, prices) ==
    IF key \in DOMAIN cache THEN cache[key]
    ELSE ComputeIndicator(use_numba, indicator, period, prices)

\* IndicatorCache.get_indicator(ticker, indicator, period, prices)
get_indicator(ticker, indicator, period, prices, values) ==
    /\ icache' = IF CacheKey(ticker, indicator, period) \in DOMAIN icache THEN icache
                 ELSE CacheStore(icache, CacheKey(ticker, indicator, period), values)
    /\ lastGet' = [called |-> TRUE, ticker |-> ticker, indicator |-> indicator,
                   period |-> period, prices |-> prices, values |-> values]

\* _metric_at of the running backtest asks the cache for a series
CacheGet ==
    /\ nBacktests >= 1
    /\ \E ticker \in DOMAIN cprices : \E r \in CacheRequests :
          get_indicator(ticker, r[1], r[2], cprices[ticker],
                        CacheLookup(icache, CacheKey(ticker, r[1], r[2]), r[1], r[2],
                                    cprices[ticker]))
    /\ UNCHANGED <<use_numba, cprices, nBacktests>>

InitCache == SimIdle /\ CondIdle /\ PanelIdle /\ CacheInit /\ SweepIdle /\ MoreIdle

NextCache ==
    \/ CacheStartBacktest /\ UNCHANGED <<simVars, condVars, panelVars, sweepVars, moreVars>>
    \/ CacheGet /\ UNCHANGED <<simVars, condVars, panelVars, sweepVars, moreVars>>

SpecCache == InitCache /\ [][NextCache]_vars

-----------------------------------------------------------------------------
(* Properties of the indicator cache *)

\* C2: every series get_indicator returns equals the series freshly computed from
\* the prices passed in that call, whatever backtests ran before on the instance.
C2_CacheReturnsFresh ==
    lastGet.called
        => lastGet.values =
               ComputeIndicator(use_numba, lastGet.indicator, lastGet.period,
                                lastGet.prices)

-----------------------------------------------------------------------------
(* Specification of VectorizedOptimizer.optimize on the branches of a threshold  *)
(* sweep: the generator hands over the branches of one indicator tree, the        *)
(* threshold of its first condition set per branch.                               *)

Branch(id, threshold) ==
    [branchId |-> id, kind |-> "indicator", threshold |-> threshold, window |-> 14,
     ticker |-> "SPY", metric |-> "Relative Strength Index"]

\* VectorizedOptimizer.can_vectorize
can_vectorize(bs) ==
    IF Len(bs) < MIN_VECTORIZE THEN FALSE
    ELSE IF bs[1].kind # "indicator" THEN FALSE
    ELSE \A k \in 2..Len(bs) : bs[k].kind = bs[1].kind

\* The parameter extract_parameter_sweep finds swept between a branch and the base
DetectParam(cond, base_cond) ==
    IF cond.threshold # base_cond.threshold THEN "threshold"
    ELSE IF cond.window # base_cond.window THEN "window"
    ELSE IF cond.ticker # base_cond.ticker THEN "ticker"
    ELSE "none"

ParamOf(cond, param) ==
    CASE param = "threshold" -> cond.threshold
      [] param = "window" -> cond.window
      [] OTHER -> cond.ticker

\* One turn of the loop of extract_parameter_sweep, given the parameter known
\* after looking at the branch
SweepStep(acc, cond, param) ==
    [param |-> param,
     values |-> IF param # "none" THEN Append(acc.values, ParamOf(cond, param))
                ELSE acc.values]

RECURSIVE SweepLoop(_, _, _)
SweepLoop(bs, k, acc) ==
    IF k > Len(bs) THEN acc
    ELSE IF bs[k].kind # "indicator" THEN SweepLoop(bs, k + 1, acc)
    ELSE SweepLoop(bs, k + 1,
                   SweepStep(acc, bs[k],
                             IF acc.param = "none" THEN DetectParam(bs[k], bs[1])
                             ELSE acc.param))

SeqRange(s) == {s[k] : k \in 1..Len(s)}

\* The test that ends extract_parameter_sweep: len(set(values)) < len(branches) * 0.8
CleanSweep(bs, acc) ==
    IF acc.param = "none" \/ 10 * Cardinality(SeqRange(acc.values)) < 8 * Len(bs)
    THEN [sweep_type |-> "none", sweep_values |-> <<>>]
    ELSE [sweep_type |-> acc.param, sweep_values |-> acc.values]

\* VectorizedOptimizer.extract_parameter_sweep
extract_parameter_sweep(bs) ==
    IF bs = <<>> THEN [sweep_type |-> "none", sweep_values |-> <<>>]
    ELSE CleanSweep(bs, SweepLoop(bs, 1, [param |-> "none", values |-> <<>>]))

\* The packaging loop of vectorized_threshold_sweep: results[i] is the simulation
\* under thresholds[i]; a record keeps the threshold its metrics were computed with
PackageResults(bs, thresholds) ==
    [status |-> "list",
     records |-> [i \in 1..(IF Len(thresholds) < Len(bs) THEN Len(thresholds)
                            ELSE Len(bs)) |->
                     [branchId |-> bs[i].branchId, threshold |-> thresholds[i]]]]

\* VectorizedOptimizer.vectorized_threshold_sweep
vectorized_threshold_sweep(bs, sweep_info, data_ok) ==
    IF ~data_ok THEN [status |-> "list", records |-> <<>>]
    ELSE IF bs[1].metric # "Relative Strength Index"
    THEN [status |-> "list", records |-> <<>>]
    ELSE PackageResults(bs, sweep_info.sweep_values)

Route(bs, sweep_info, data_ok) ==
    IF sweep_info.sweep_type \in {"threshold", "window"}
    THEN vectorized_threshold_sweep(bs, sweep_info, data_ok)
    ELSE [status |-> "None"]

\* VectorizedOptimizer.optimize
optimize(bs, data_ok) ==
    IF ~can_vectorize(bs) THEN [status |-> "None"]
    ELSE Route(bs, extract_parameter_sweep(bs), data_ok)

SweepInit ==
    /\ branches = <<>>
    /\ sweepData \in BOOLEAN
    /\ sweepOut = [status |-> "none"]

\* The generator adds the next branch: thresholds ascend, a step may repeat one
NextThresholds ==
    IF branches = <<>> THEN {1, 2}
    ELSE {th \in {branches[Len(branches)].threshold,
                  branches[Len(branches)].threshold + 1} : th <= MaxThreshold}

SweepAddBranch ==
    /\ sweepOut.status = "none"
    /\ Len(branches) < MaxBranches
    /\ \E th \in NextThresholds :
          branches' = Append(branches, Branch(Len(branches) + 1, th))
    /\ UNCHANGED <<sweepData, sweepOut>>

\* optimize(branches)
SweepRun ==
    /\ sweepOut.status = "none"
    /\ sweepOut' = optimize(branches, sweepData)
    /\ UNCHANGED <<branches, sweepData>>

InitSweep == SimIdle /\ CondIdle /\ PanelIdle /\ CacheIdle /\ SweepInit /\ MoreIdle

NextSweep ==
    \/ SweepAddBranch /\ UNCHANGED <<simVars, condVars, panelVars, cacheVars, moreVars>>
    \/ SweepRun /\ UNCHANGED <<simVars, condVars, panelVars, cacheVars, moreVars>>

SpecSweep == InitSweep /\ [][NextSweep]_vars

-----------------------------------------------------------------------------
(* Properties of the vectorized sweep *)

\* C3: a vectorized threshold sweep over n branches returns n records in input
\* order, the i-th computed with the threshold of branch i and reported under
\* branch i's identity.
C3_SweepAlignedWithBranches ==
    (sweepOut.status = "list" /\ sweepData)
        => /\ Len(sweepOut.records) = Len(branches)
           /\ \A i \in 1..Len(sweepOut.records) :
                 /\ sweepOut.records[i].branchId = branches[i].branchId
                 /\ sweepOut.records[i].threshold = branches[i].threshold

-----------------------------------------------------------------------------
(* Specification of _eval_conditions on its own: a condition list is put        *)
(* together one condition at a time and evaluated at one bar.                    *)

CondTypes == {"if", "and", "or"}
CondCatalog(type) == {CondA(type), CondB(type), CondZ(type)}

\* The closes of the bar: BIL may have no close on any common date
CondRows ==
    { [t \in {"SPY", "BIL"} |-> IF t = "SPY" THEN spy ELSE bil] :
        spy \in Prices, bil \in Prices \cup {NaN} }

\* ctx of the evaluation: a panel of the one bar
CondCtx ==
    [db |-> [t \in DOMAIN condRow |-> <<condRow[t]>>], idx |-> 1,
     cfg |-> [cache |-> TRUE, numba |-> TRUE]]

CondInit == conds = <<>> /\ condRow \in CondRows /\ condOut = "none"

\* The caller appends one more condition to the list
CondAdd ==
    /\ condOut = "none"
    /\ Len(conds) < MaxConds
    /\ \E type \in CondTypes : \E c \in CondCatalog(type) : conds' = Append(conds, c)
    /\ UNCHANGED <<condRow, condOut>>

\* Backtester._eval_conditions on the list
CondEval ==
    /\ condOut = "none"
    /\ condOut' = Tri(_eval_conditions(CondCtx, conds))
    /\ UNCHANGED <<conds, condRow>>

InitCond == SimIdle /\ CondInit /\ PanelIdle /\ CacheIdle /\ SweepIdle /\ MoreIdle

NextCond ==
    \/ CondAdd /\ UNCHANGED <<simVars, panelVars, cacheVars, sweepVars, moreVars>>
    \/ CondEval /\ UNCHANGED <<simVars, panelVars, cacheVars, sweepVars, moreVars>>

SpecCond == InitCond /\ [][NextCond]_vars

-----------------------------------------------------------------------------
(* Properties of _eval_conditions *)

\* The AND-groups of a list: if and or start a group, and stays in the current one
StartsGroup(k) == conds[k].type \in {"if", "or"}

GroupOf(k) ==
    IF \E j \in 1..k : StartsGroup(j)
    THEN CHOOSE j \in 1..k : StartsGroup(j) /\ \A i \in (j + 1)..k : ~StartsGroup(i)
    ELSE 0

CondHolds(k) == _eval_condition(CondCtx, conds[k]) = "True"

GroupHolds(g) ==
    /\ \E k \in 1..Len(conds) : GroupOf(k) = g
    /\ \A k \in 1..Len(conds) : GroupOf(k) = g => CondHolds(k)

AnyGroupHolds == \E g \in 0..Len(conds) : GroupHolds(g)

AllConditionsHaveData ==
    \A k \in 1..Len(conds) : _eval_condition(CondCtx, conds[k]) # "None"

\* C6: a condition list whose conditions all have data evaluates to the disjunction
\* of its AND-groups, where if and or each start a new group and and joins the
\* current one.
C6_AndBindsTighter ==
    (condOut # "none" /\ AllConditionsHaveData) => condOut = Tri(AnyGroupHolds)

\* [if A, and B, or C, and D] with A and B false, C and D true: true by its second
\* group only
C6_Witness ==
    /\ condOut = "True" /\ Len(conds) = 4
    /\ conds[1].type = "if" /\ conds[2].type = "and"
    /\ conds[3].type = "or" /\ conds[4].type = "and"
    /\ ~CondHolds(1) /\ ~CondHolds(2) /\ CondHolds(3) /\ CondHolds(4)

-----------------------------------------------------------------------------
(* Properties of one backtest *)

\* The evaluation context of bar i
Ctx(i) == [db |-> db, idx |-> i, cfg |-> cfg]

\* What the root forwards when it picks the given slot at bar i
SlotAlloc(slot, i) ==
    _eval_children(Ctx(i), FreshAltExitState, tree, ChildrenOf(tree, slot)).alloc

AllocSum(a) == SumFn(a, DOMAIN a)

\* C1: an altExit node that entered at bar i and whose exit conditions are not met
\* at bar i+1 is still entered at bar i+1 and forwards to its then slot, whatever
\* its entry conditions say at bar i+1.
C1_AltExitStatePersists ==
    [][ ( /\ pc = "sim" /\ idx >= 1 /\ idx < NBars
          /\ tree.kind = "altExit"
          /\ StateGet(altExit_state, tree.id)
          /\ ~_eval_conditions(Ctx(idx + 1), tree.exitConditions) )
        => ( /\ StateGet(altExit_state', tree.id)
             /\ allocations' = Append(allocations, SlotAlloc("then", idx + 1)) )
      ]_vars

\* C4: whenever holdings is non-empty after a bar's rebalance step, the equity
\* appended for that bar is the sum over the held tickers of shares times close.
C4_EquityIsHoldingsValue ==
    (pc \in {"sim", "done"} /\ idx >= 1 /\ DOMAIN holdings # {})
        => equity_curve[idx] =
               SumFn([t \in DOMAIN holdings |-> FMul(holdings[t], db[t][idx])],
                     DOMAIN holdings)

\* A two-ticker portfolio carried over a bar without rebalancing, bought at a
\* cost, whose value moved with the closes
C4_Witness ==
    /\ idx >= 2 /\ DOMAIN holdings = {"SPY", "BIL"} /\ ~rebalanced /\ cost_bps > 0
    /\ equity_curve[idx] # equity_curve[idx - 1]

SumZeroOrOne(a) == AllocSum(a) \in {R(0), R(1)}
WithinUnit(s) == IsNum(s) /\ ~FLt(s, R(0)) /\ ~FGt(s, R(1))
SumWithinUnit(a) == WithinUnit(AllocSum(a))

\* C5 as stated: at every bar the weights of the allocation the evaluator returns
\* sum to 0 or to 1, scaling nodes with then and else of different coverage included.
C5_SumZeroOrOne == \A k \in 1..Len(allocations) : SumZeroOrOne(allocations[k])

WithinUnitOrWhole(s, scaling) ==
    /\ WithinUnit(s)
    /\ ~scaling => s \in {R(0), R(1)}

\* C5 as amended: at every bar the weights sum to a value between 0 and 1, and to
\* exactly 0 or 1 when the tree has no scaling node.
C5_SumWithinUnit ==
    \A k \in 1..Len(allocations) :
        WithinUnitOrWhole(AllocSum(allocations[k]), HasKind(tree, "scaling"))

\* A scaling node with an empty else slot, blended strictly between its ends
C5_Witness ==
    /\ tree.kind = "scaling" /\ ChildrenOf(tree, "else") = <<>> /\ idx >= 1
    /\ FGt(AllocSum(allocations[idx]), R(0)) /\ FLt(AllocSum(allocations[idx]), R(1))

\* A value a condition or a gauge has no data for: absent, or NaN
MissingValue(v) == v = None \/ IsNaN(v)

CondMissing(ctx, c) ==
    \/ MissingValue(_metric_at(ctx, Normalize(c.ticker), c.metric, c.window))
    \/ /\ c.expanded
       /\ MissingValue(_metric_at(ctx, Normalize(c.rightTicker), c.rightMetric,
                                  c.rightWindow))

HasMissingData(ctx, conditions) ==
    \E k \in 1..Len(conditions) : CondMissing(ctx, conditions[k])

\* C7: when a condition of the list of an indicator node has missing input data at
\* a bar (ticker absent from the panel, or a NaN value), the list evaluates false
\* and the node forwards to its else slot.
C7_MissingDataIsFalse ==
    \A k \in 1..Len(allocations) :
        (tree.kind = "indicator" /\ HasMissingData(Ctx(k), tree.conditions))
            => /\ ~_eval_conditions(Ctx(k), tree.conditions)
               /\ allocations[k] = SlotAlloc("else", k)

ClampUnit(x) == IF FLt(x, R(0)) THEN R(0) ELSE IF FGt(x, R(1)) THEN R(1) ELSE x

\* b of the scaling rule: 0 for a missing gauge value or an empty range
RuleBlend(v, from, to) ==
    IF MissingValue(v) \/ from = to THEN R(0)
    ELSE ClampUnit(FDiv(FSub(v, from), FSub(to, from)))

GaugeAt(i) ==
    _metric_at(Ctx(i), Normalize(tree.scaleTicker), tree.scaleMetric, tree.scaleWindow)

\* C8: a scaling node returns (1-b) then_alloc + b else_alloc with
\* b = clamp((v-from)/(to-from), 0, 1), and b = 0 when v is missing (absent or NaN)
\* or from = to.
C8_ScalingBlend ==
    \A k \in 1..Len(allocations) :
        tree.kind = "scaling"
            => allocations[k] =
                   BlendAllocs(SlotAlloc("then", k), SlotAlloc("else", k),
                               RuleBlend(GaugeAt(k), tree.scaleFrom, tree.scaleTo))

\* C9: a backtest of a tree that holds a node of an unknown kind ends in an error;
\* it never returns a result.
C9_UnknownKindIsFatal ==
    (pc = "done" /\ HasUnknownKind(tree)) => result = "error"

-----------------------------------------------------------------------------
(* Specification of branch generation: a sweep configuration is put together    *)
(* one parameter range at a time and handed to one of the two generators,       *)
(* RollingOptimizer.generate_branches or generate_parameter_combinations.       *)

ParamRanges ==
    [enabled : BOOLEAN, min : 1..MaxValue, max : 1..MaxValue, step : 1..MaxStep]

IsEnabled(r) == r.enabled
EnabledRanges(parameter_ranges) == SelectSeq(parameter_ranges, IsEnabled)

\* current = min_val; while current <= max_val: values.append(current); current += step
RECURSIVE RangeLoop(_, _, _, _)
RangeLoop(current, max_val, step, values) ==
    IF current <= max_val
    THEN RangeLoop(current + step, max_val, step, Append(values, current))
    ELSE values

EnsureMax(values, max_val) ==
    IF Len(values) = 0 \/ values[Len(values)] # max_val
    THEN Append(values, max_val) ELSE values

\* the value array generate_branches builds for one range
RollingValues(r) == EnsureMax(RangeLoop(r.min, r.max, r.step, <<>>), r.max)

\* the value list generate_parameter_combinations builds for one range
FlowchartValues(r) == RangeLoop(r.min, r.max, r.step, <<>>)

WithFirst(value, combos) == [k \in 1..Len(combos) |-> <<value>> \o combos[k]]

RECURSIVE OverValues(_, _)
OverValues(values, combos) ==
    IF values = <<>> THEN <<>>
    ELSE WithFirst(Head(values), combos) \o OverValues(Tail(values), combos)

\* itertools.product(*value_arrays) and generate_recursive enumerate the same
\* combinations in the same order: the last range varies fastest
RECURSIVE product(_)
product(value_arrays) ==
    IF value_arrays = <<>> THEN << <<>> >>
    ELSE OverValues(Head(value_arrays), product(Tail(value_arrays)))

RollingArrays(enabled_ranges) ==
    [k \in 1..Len(enabled_ranges) |-> RollingValues(enabled_ranges[k])]
FlowchartArrays(enabled) ==
    [k \in 1..Len(enabled) |-> FlowchartValues(enabled[k])]

NumberBranches(combos) ==
    [k \in 1..Len(combos) |-> [id |-> k - 1, params |-> combos[k]]]

generate_branches(parameter_ranges) ==
    IF Len(EnabledRanges(parameter_ranges)) = 0
    THEN << [id |-> 0, params |-> <<>>] >>
    ELSE NumberBranches(product(RollingArrays(EnabledRanges(parameter_ranges))))

generate_parameter_combinations(parameter_ranges) ==
    IF Len(EnabledRanges(parameter_ranges)) = 0
    THEN << [id |-> 0, params |-> <<>>] >>
    ELSE NumberBranches(product(FlowchartArrays(EnabledRanges(parameter_ranges))))

GenInit == ranges = <<>> /\ genOut = [status |-> "none"]

GenAddRange ==
    /\ genOut.status = "none"
    /\ Len(ranges) < MaxRanges
    /\ \E r \in ParamRanges : ranges' = Append(ranges, r)
    /\ UNCHANGED genOut

GenRolling ==
    /\ genOut.status = "none"
    /\ genOut' = [status |-> "done", by |-> "generate_branches",
                  variants |-> generate_branches(ranges)]
    /\ UNCHANGED ranges

GenFlowchart ==
    /\ genOut.status = "none"
    /\ genOut' = [status |-> "done", by |-> "generate_parameter_combinations",
                  variants |-> generate_parameter_combinations(ranges)]
    /\ UNCHANGED ranges

InitGen == CoreIdle /\ GenInit /\ SplitIdle /\ WorkerIdle /\ RcIdle /\ LateIdle

NextGen ==
    \/ GenAddRange /\ UNCHANGED <<coreVars, splitVars, workerVars, rcVars, lateVars>>
    \/ GenRolling /\ UNCHANGED <<coreVars, splitVars, workerVars, rcVars, lateVars>>
    \/ GenFlowchart /\ UNCHANGED <<coreVars, splitVars, workerVars, rcVars, lateVars>>

SpecGen == InitGen /\ [][NextGen]_vars

-----------------------------------------------------------------------------
(* Properties of branch generation *)

\* min, min + step, ... up to max, and max itself
StepValues(r) ==
    {v \in r.min..r.max : (v - r.min) % r.step = 0} \cup {r.max}

WellFormed(parameter_ranges) ==
    \A k \in 1..Len(parameter_ranges) :
        parameter_ranges[k].enabled =>
            parameter_ranges[k].min <= parameter_ranges[k].max

\* the Cartesian product of the value sets of the enabled ranges
Combinations(enabled) ==
    {c \in [1..Len(enabled) -> 1..MaxValue] :
        \A k \in 1..Len(enabled) : c[k] \in StepValues(enabled[k])}

VariantParams(variants) == {variants[k].params : k \in 1..Len(variants)}

OnePerCombination(variants, enabled) ==
    /\ VariantParams(variants) = Combinations(enabled)
    /\ Len(variants) = Cardinality(Combinations(enabled))

\* C11: for enabled ranges with step > 0 and min <= max, the variants a
\* generator returns are exactly one per element of the Cartesian product of
\* the sequences min, min + step, ... <= max with max always included.
C11_OneVariantPerCombination ==
    (genOut.status = "done" /\ WellFormed(ranges)) =>
        OnePerCombination(genOut.variants, EnabledRanges(ranges))

-----------------------------------------------------------------------------
(* Properties of the function node *)

ChildTickers(child) ==
    IF child = NullNode THEN <<>> ELSE _collect_position_tickers(child)

AverageOf(values) ==
    IF values = <<>> THEN None ELSE FDiv(SumSeq(values), R(Len(values)))

\* The average metric value of a child over its position tickers at bar i, None
\* when no ticker of the child has a value
ChildAverage(child, i) == AverageOf(MetricValues(Ctx(i), tree, ChildTickers(child)))

\* The averages of the children of the root at bar i
Averages(i) ==
    [k \in 1..Len(ChildrenOf(tree, "next")) |->
        ChildAverage(ChildrenOf(tree, "next")[k], i)]

Rankable(avgs) == {k \in DOMAIN avgs : avgs[k] # None}

ComesBefore(a, b, rank) == IF rank = "bottom" THEN FLt(a, b) ELSE FGt(a, b)

\* P is the set of the first pick_n children in the rank's order: of that size,
\* and no child left out comes strictly before a child of P
IsFirstPicks(P, avgs, rank, pick_n) ==
    /\ Cardinality(P) =
           (IF pick_n < Cardinality(Rankable(avgs)) THEN pick_n
            ELSE Cardinality(Rankable(avgs)))
    /\ \A p \in P : \A q \in Rankable(avgs) \ P :
           ~ComesBefore(avgs[q], avgs[p], rank)

KeepOnly(children, P) ==
    [k \in 1..Len(children) |-> IF k \in P THEN children[k] ELSE NullNode]

\* What the node returns when it forwards to the children of P and to no other
ForwardTo(P, i) ==
    _eval_children(Ctx(i), FreshAltExitState, tree,
                   KeepOnly(ChildrenOf(tree, "next"), P)).alloc

\* The bar of the example: the metric reads 40 for A, 20 for B and 55 for C
ExampleCtx ==
    [db |-> [t \in {"A", "B", "C"} |->
                <<CASE t = "A" -> R(40) [] t = "B" -> R(20) [] OTHER -> R(55)>>],
     idx |-> 1, cfg |-> [cache |-> TRUE, numba |-> TRUE]]

ExampleNode ==
    [Node("function", "f", [next |-> <<Pos(<<"A">>), Pos(<<"B">>), Pos(<<"C">>)>>])
        EXCEPT !.rank = "bottom", !.bottom = 1]

ForwardsToFirstPicks(avgs, allocation) ==
    \E P \in SUBSET Rankable(avgs) :
        /\ IsFirstPicks(P, avgs, tree.rank, tree.bottom)
        /\ allocation = ForwardTo(P, idx)

ExampleAllocation ==
    _eval_function(ExampleCtx, FreshAltExitState, ExampleNode).alloc

-----------------------------------------------------------------------------
(* Properties of the numbered node *)

\* The number of items of the root whose condition list evaluates true at bar i
TrueItems(i) ==
    Cardinality({k \in 1..Len(tree.numbered.items) :
                    _eval_conditions(Ctx(i), tree.numbered.items[k].conditions)})

\* The slot the quantifier rule names for a count of true items
RuleSlot(quantifier, n_true, n, n_items) ==
    CASE quantifier = "ladder" ->
             (CASE n_true = 0 -> "ladder-0" [] n_true = 1 -> "ladder-1"
                [] OTHER -> "ladder-2")
      [] quantifier = "any" -> IF n_true >= 1 THEN "then" ELSE "else"
      [] quantifier = "all" -> IF n_true = n_items THEN "then" ELSE "else"
      [] quantifier = "none" -> IF n_true = 0 THEN "then" ELSE "else"
      [] quantifier = "exactly" -> IF n_true = n THEN "then" ELSE "else"
      [] quantifier = "atLeast" -> IF n_true >= n THEN "then" ELSE "else"
      [] quantifier = "atMost" -> IF n_true <= n THEN "then" ELSE "else"

ForwardsToRuleSlot(n_true, allocation) ==
    allocation = SlotAlloc(RuleSlot(tree.numbered.quantifier, n_true, tree.numbered.n,
                                    Len(tree.numbered.items)), idx)

\* C13: at the bar just evaluated a numbered node forwards to then exactly when
\* its count of true items meets the quantifier (any >= 1, all = number of items,
\* none = 0, exactly = n, atLeast >= n, atMost <= n), to else otherwise, and with
\* quantifier ladder to the slot ladder-<n_true>.
C13_QuantifierPicksSlot ==
    (tree.kind = "numbered" /\ idx >= 1) =>
        ForwardsToRuleSlot(TrueItems(idx), allocations[idx])

\* atMost 1 met with exactly one true item of two
C13_Witness ==
    /\ tree.kind = "numbered" /\ tree.numbered.quantifier = "atMost" /\ idx >= 1
    /\ TrueItems(idx) = 1 /\ tree.numbered.n = 1
    /\ allocations[idx] = [t \in {"SPY"} |-> R(1)]

-----------------------------------------------------------------------------
(* Properties of the rebalance *)

\* simulate from bar i on, as a function of its loop variables: the equity curve
RECURSIVE SimulateFrom(_, _, _, _, _, _, _, _)
RECURSIVE SimulateStep(_, _, _, _, _, _, _, _, _)
RECURSIVE SimulateNext(_, _, _, _, _, _, _, _, _)
SimulateFrom(t, closes, bps, i, eq, h, prev, curve) ==
    IF i > Len(closes["SPY"]) THEN curve
    ELSE SimulateStep(t, closes, bps, i, h, prev, curve,
                      evaluate_tree(t, closes, i, [cache |-> TRUE, numba |-> TRUE]).alloc,
                      CurrentEquity(h, closes, i, eq))

SimulateStep(t, closes, bps, i, h, prev, curve, allocation, current_equity) ==
    SimulateNext(t, closes, bps, i, prev, curve, allocation, current_equity,
                 Rebalance(allocation, prev, h, closes, i, current_equity, bps))

SimulateNext(t, closes, bps, i, prev, curve, allocation, current_equity, h) ==
    SimulateFrom(t, closes, bps, i + 1, EquityValue(h, closes, i, current_equity), h,
                 allocation, Append(curve, EquityValue(h, closes, i, current_equity)))

\* One always-held ticker with closes 100, 101, 102, 103, 104 and no cost
ExampleCurve ==
    SimulateFrom(PosSPY, [t \in {"SPY"} |-> <<R(100), R(101), R(102), R(103), R(104)>>],
                 0, 1, R(START_EQUITY), EmptyAlloc, EmptyAlloc, <<>>)

\* C14: on every rebalance to an allocation whose weights sum to 1, the first
\* one at bar 0 with the starting equity included, equity right after the
\* rebalance is the pre-rebalance portfolio value times 1 - cost_bps/10000; with
\* no cost and one always-held ticker closing at 100, 101, 102, 103, 104 the
\* equity curve is 10000, 10100, 10200, 10300, 10400.
C14_RebalanceChargesCostOnce ==
    [][ /\ (/\ pc = "sim" /\ idx < NBars /\ rebalanced'
            /\ AllocSum(allocations'[idx + 1]) = R(1))
           => equity' = FMul(CurrentEquity(holdings, db, idx + 1, equity),
                             CostMultiplier(cost_bps))
        /\ ExampleCurve = <<R(10000), R(10100), R(10200), R(10300), R(10400)>> ]_vars

-----------------------------------------------------------------------------
(* Properties of the bars without a rebalance *)

\* the allocation evaluated at the bar before bar i, empty before the first bar
PreviousBarAllocation(i) == IF i = 1 THEN EmptyAlloc ELSE allocations[i - 1]

\* the value the bar records when nothing is traded: the holdings at the closes
\* of the bar, or the equity carried over when nothing is held
UntradedValue(h, i) == IF DOMAIN h # {} THEN PortfolioValue(h, db, i) ELSE equity

\* C24: at a bar whose allocation equals that of the previous bar every share
\* count of holdings stays as it is and no cost is charged; holdings change only
\* at a bar whose allocation differs from the previous one, and then hold no
\* ticker that is not in the new allocation.
C24_HoldingsKeptUnlessAllocationChanges ==
    [][(pc = "sim" /\ idx' = idx + 1) =>
          /\ allocations'[idx'] = PreviousBarAllocation(idx') =>
                 /\ holdings' = holdings
                 /\ equity_curve'[idx'] = UntradedValue(holdings, idx')
          /\ holdings' # holdings => allocations'[idx'] # PreviousBarAllocation(idx')
          /\ allocations'[idx'] # PreviousBarAllocation(idx') =>
                 DOMAIN holdings' \subseteq DOMAIN allocations'[idx']]_vars

\* A bar bought at a cost that dropped a ticker of the bar before, followed by a
\* bar with the same allocation
C24_Witness ==
    /\ idx = 3 /\ cost_bps > 0 /\ DOMAIN holdings # {}
    /\ allocations[3] = allocations[2] /\ allocations[2] # allocations[1]
    /\ DOMAIN allocations[1] \ DOMAIN allocations[2] # {}
    /\ equity_curve[3] # equity_curve[2]

\* C26: a rebalance loses no value beyond the transaction cost: whatever the
\* target allocation (weights summing to less than 1, a ticker without a usable
\* price), the equity recorded at the bar of a rebalance is at least the
\* pre-rebalance value times cost_multiplier.
C26_RebalanceKeepsUnallocatedCash ==
    [][(pc = "sim" /\ idx < NBars /\ rebalanced') =>
          ~FLt(equity', FMul(CurrentEquity(holdings, db, idx + 1, equity),
                             CostMultiplier(cost_bps)))]_vars

-----------------------------------------------------------------------------
(* Dates.  A timestamp is a whole number of days since 2019-01-01 (the bars   *)
(* are daily); datetime values are records [year, month, day] and ISO strings  *)
(* are triples <<year, month, day>>.                                           *)

DaysIn(y, mo) ==
    IF mo = 2 THEN (IF y % 4 = 0 THEN 29 ELSE 28)
    ELSE IF mo \in {4, 6, 9, 11} THEN 30 ELSE 31

\* datetime.fromtimestamp
RECURSIVE FromDay(_, _, _)
FromDay(y, mo, d) ==
    IF d < DaysIn(y, mo) THEN [year |-> y, month |-> mo, day |-> d + 1]
    ELSE IF mo = 12 THEN FromDay(y + 1, 1, d - DaysIn(y, mo))
    ELSE FromDay(y, mo + 1, d - DaysIn(y, mo))

fromtimestamp(ts) == FromDay(2019, 1, ts)

\* datetime.timestamp
RECURSIVE DaysBefore(_, _)
DaysBefore(y, mo) ==
    IF y = 2019 /\ mo = 1 THEN 0
    ELSE IF mo = 1 THEN DaysBefore(y - 1, 12) + DaysIn(y - 1, 12)
    ELSE DaysBefore(y, mo - 1) + DaysIn(y, mo - 1)

timestamp(dt) == DaysBefore(dt.year, dt.month) + dt.day - 1

\* datetime.isoformat and datetime.fromisoformat
isoformat(dt) == <<dt.year, dt.month, dt.day>>
fromisoformat(s) == [year |-> s[1], month |-> s[2], day |-> s[3]]

\* chronologicalDate absent from the split configuration
NoDate == <<>>

-----------------------------------------------------------------------------
(* Backtester.split_dates and the index lists of run_backtest *)

\* Whether split_dates puts a timestamp into is_dates (else into oos_dates)
InSample(ts, strategy, chronological_date) ==
    CASE strategy = "even_odd_month" ->
             fromtimestamp(ts).month \in {1, 3, 5, 7, 9, 11}
      [] strategy = "even_odd_year" -> fromtimestamp(ts).year % 2 = 1
      [] strategy = "chronological" /\ chronological_date # NoDate ->
             ts < timestamp(fromisoformat(chronological_date))
      [] OTHER -> TRUE

\* split_dates with the out-of-sample test always made on the month
split_datesByMonth(ds, strategy, chronological_date) ==
    [is_dates |-> {ds[k] : k \in {j \in 1..Len(ds) :
                                     InSample(ds[j], strategy, chronological_date)}},
     oos_dates |-> {ds[k] : k \in {j \in 1..Len(ds) :
                                      ~InSample(ds[j], "even_odd_month",
                                                chronological_date)}}]

split_dates(ds, strategy, chronological_date) ==
    [is_dates |-> {ds[k] : k \in {j \in 1..Len(ds) :
                                     InSample(ds[j], strategy, chronological_date)}},
     oos_dates |-> {ds[k] : k \in {j \in 1..Len(ds) :
                                      ~InSample(ds[j], strategy, chronological_date)}}]

\* split_index = int(len(db['dates']) * chronological_percent / 100), a 0-based
\* index into db['dates']
SplitIndex(ds, percent) == (Len(ds) * percent) \div 100

DateAtIndex(ds, split_index) ==
    IF split_index > 0 /\ split_index < Len(ds)
    THEN isoformat(fromtimestamp(ds[split_index + 1]))
    ELSE NoDate

\* chronological_date as run_backtest hands it to split_dates
ChronologicalDate(ds, sc) ==
    IF sc.strategy = "chronological" /\ sc.chronologicalDate = NoDate
    THEN DateAtIndex(ds, SplitIndex(ds, sc.chronologicalPercent))
    ELSE sc.chronologicalDate

InSet(ds, S, k) == ds[k] \in S
IndicesIn(ds, S) == SelectSeq([k \in 1..Len(ds) |-> k], LAMBDA k : InSet(ds, S, k))

\* is_indices and oos_indices of run_backtest (bars numbered from 1)
SplitIndices(ds, parts) ==
    [status |-> "done",
     is_indices |-> IndicesIn(ds, parts.is_dates),
     oos_indices |-> IndicesIn(ds, parts.oos_dates)]

-----------------------------------------------------------------------------
(* Metrics.  cagr, sharpe, sortino and calmar involve roots and powers: the    *)
(* model keeps a value exactly where it is rational by construction (the 0.0   *)
(* and 100.0 of the guards, a quotient with numerator 0) and keeps only its    *)
(* sign otherwise.  beta, treynor, vol, timar, years and startDate are left    *)
(* out of the metric record.                                                   *)

Exact(x) == [kind |-> "exact", v |-> x]
Inexact(s) == [kind |-> "inexact", sign |-> s]

Sign(x) == IF FGt(x, R(0)) THEN 1 ELSE IF FLt(x, R(0)) THEN -1 ELSE 0

\* x times a positive irrational factor
Scaled(x) == IF x = R(0) THEN Exact(R(0)) ELSE Inexact(Sign(x))

IsPositive(mv) ==
    IF mv.kind = "exact" THEN FGt(mv.v, R(0)) ELSE mv.sign > 0

\* np.diff(values) / values[:-1]
Returns(values) ==
    [k \in 1..(Len(values) - 1) |->
        FDiv(FSub(values[k + 1], values[k]), values[k])]

\* np.std(s) == 0
ZeroStd(s) == \A j \in 1..Len(s) : s[j] = s[1]

IsNegative(r) == FLt(r, R(0))

\* (end_value / start_value) ** (1.0 / n_years) - 1.0
Growth(values) ==
    IF values[Len(values)] = values[1] THEN Exact(R(0))
    ELSE Inexact(Sign(FSub(values[Len(values)], values[1])))

NewPeak(value, peak) == IF FGt(value, peak) THEN value ELSE peak
Drawdown(value, peak) ==
    IF FGt(peak, R(0)) THEN FDiv(FSub(peak, value), peak) ELSE R(0)
LargerOf(dd, max_dd) == IF FGt(dd, max_dd) THEN dd ELSE max_dd

\* the max drawdown loop, shared by optimized_metrics.py and backtester.py
RECURSIVE DrawdownLoop(_, _, _, _)
DrawdownLoop(values, k, peak, max_dd) ==
    IF k > Len(values) THEN max_dd
    ELSE DrawdownLoop(values, k + 1, NewPeak(values[k], peak),
                      LargerOf(Drawdown(values[k], NewPeak(values[k], peak)), max_dd))

calculate_max_drawdown(values) ==
    IF Len(values) = 0 THEN R(0) ELSE DrawdownLoop(values, 1, values[1], R(0))

MeanReturn(returns) == FDiv(SumSeq(returns), R(Len(returns)))

\* sharpe of calculate_all_metrics_fast
FastSharpe(returns) ==
    IF ZeroStd(returns) THEN Exact(R(0)) ELSE Scaled(MeanReturn(returns))

\* sortino of calculate_all_metrics_fast
FastSortino(returns, downside_returns) ==
    IF Len(downside_returns) = 0
    THEN (IF ~FGt(MeanReturn(returns), R(0)) THEN Exact(R(0)) ELSE Exact(R(100)))
    ELSE IF ZeroStd(downside_returns) THEN Exact(R(0))
    ELSE Scaled(MeanReturn(returns))

\* calmar of calculate_all_metrics_fast
FastCalmar(cagr, max_dd) ==
    IF max_dd = R(0)
    THEN (IF ~IsPositive(cagr) THEN Exact(R(0)) ELSE Exact(R(100)))
    ELSE cagr

FastCagr(values) == IF ~FGt(values[1], R(0)) THEN Exact(R(0)) ELSE Growth(values)

ZeroMetrics ==
    [cagr |-> Exact(R(0)), sharpe |-> Exact(R(0)), calmar |-> Exact(R(0)),
     maxDrawdown |-> R(0), sortino |-> Exact(R(0))]

\* optimized_metrics.calculate_all_metrics_fast
calculate_all_metrics_fast(curve, returns) ==
    IF Len(curve) < 2 \/ Len(returns) < 2 THEN ZeroMetrics
    ELSE [cagr |-> FastCagr(curve),
          sharpe |-> FastSharpe(returns),
          calmar |-> FastCalmar(FastCagr(curve), calculate_max_drawdown(curve)),
          maxDrawdown |-> calculate_max_drawdown(curve),
          sortino |-> FastSortino(returns, SelectSeq(returns, IsNegative))]

\* optimized_metrics.calculate_metrics_fast
calculate_metrics_fast(curve) ==
    IF Len(curve) < 2 THEN ZeroMetrics
    ELSE calculate_all_metrics_fast(curve, Returns(curve))

\* Backtester.calculate_cagr, calculate_sharpe and the calmar of the fallback
calculate_cagr(values) ==
    IF Len(values) < 2 \/ values[1] = R(0) THEN Exact(R(0)) ELSE Growth(values)

calculate_sharpe(returns) ==
    IF Len(returns) = 0 THEN Exact(R(0))
    ELSE IF ZeroStd(returns) THEN Exact(R(0)) ELSE Scaled(MeanReturn(returns))

SlowCalmar(cagr, max_dd) == IF max_dd # R(0) THEN cagr ELSE Exact(R(0))

\* the branch of calculate_metrics taken when optimized_metrics is missing
SlowMetrics(values) ==
    [cagr |-> calculate_cagr(values),
     sharpe |-> calculate_sharpe(Returns(values)),
     calmar |-> SlowCalmar(calculate_cagr(values), calculate_max_drawdown(values)),
     maxDrawdown |-> calculate_max_drawdown(values),
     sortino |-> Exact(R(0))]

\* invested_indices of calculate_metrics: positions in the list it was given
InvestedIndices(allocs) == {k \in 1..Len(allocs) : allocs[k] # EmptyAlloc}

\* the positions invested_returns has a return for: idx < len(values) - 1
ReturnIndices(values, allocs) == {k \in InvestedIndices(allocs) : k < Len(values)}

WinsAmong(values, at) ==
    Cardinality({k \in at : FGt(FDiv(FSub(values[k + 1], values[k]), values[k]), R(0))})

WinRate(values, at) ==
    IF at = {} THEN R(0) ELSE Q(WinsAmong(values, at), Cardinality(at))

TimeInMarket(allocs) == Q(Cardinality(InvestedIndices(allocs)), Len(allocs))

WithExposure(ms, values, allocs) ==
    [status |-> "done", cagr |-> ms.cagr, sharpe |-> ms.sharpe, calmar |-> ms.calmar,
     maxDrawdown |-> ms.maxDrawdown, sortino |-> ms.sortino,
     winRate |-> WinRate(values, ReturnIndices(values, allocs)),
     tim |-> TimeInMarket(allocs)]

\* Backtester.calculate_metrics on a non-empty curve with its allocations
calculate_metrics(values, allocs, numba) ==
    WithExposure(IF numba THEN calculate_metrics_fast(values) ELSE SlowMetrics(values),
                 values, allocs)

\* [xs[i] for i in indices]
Pick(xs, indices) == [k \in 1..Len(indices) |-> xs[indices[k]]]

SliceMetrics(values, allocs, indices, numba) ==
    IF indices = <<>> THEN NoMetrics
    ELSE calculate_metrics(Pick(values, indices), Pick(allocs, indices), numba)

-----------------------------------------------------------------------------
(* Specification of run_backtest after simulate: the metrics of the whole     *)
(* curve, the split of the bars into IS and OOS, the metrics of each slice.    *)

\* First days of the bars: 2019-01-01, 2019-02-10, 2019-03-12, 2020-02-05,
\* 2020-03-06
DayChoices == {0, 40, 70, 400, 430}

Ascending(ds) == \A k \in 1..(Len(ds) - 1) : ds[k] < ds[k + 1]

DateLists(T) == {ds \in [1..T -> DayChoices] : Ascending(ds)}

Percents == {0, 20, 50, 80, 100}

SplitConfig(enabled, strategy, date, percent) ==
    [enabled |-> enabled, strategy |-> strategy, chronologicalDate |-> date,
     chronologicalPercent |-> percent]

SplitConfigs ==
    {SplitConfig(FALSE, "even_odd_month", NoDate, 50)}
    \cup {SplitConfig(TRUE, s, NoDate, 50) : s \in {"even_odd_month", "even_odd_year"}}
    \cup {SplitConfig(TRUE, "chronological", date, 50) :
            date \in {<<2019, 3, 1>>, <<2020, 1, 1>>}}
    \cup {SplitConfig(TRUE, "chronological", NoDate, percent) : percent \in Percents}

\* Always invested, and invested only on the bars SPY closes above 1
SplitTrees ==
    {PosSPY,
     [Node("indicator", "i", ThenElse(<<PosSPY>>, <<>>))
         EXCEPT !.conditions = <<CondA("if")>>]}

AllocationsOf(t, closes) ==
    [i \in 1..Len(closes["SPY"]) |->
        evaluate_tree(t, closes, i, [cache |-> TRUE, numba |-> TRUE]).alloc]

SplitInit ==
    /\ tree \in SplitTrees
    /\ \E T \in MIN_DATES..MaxSplitBars :
          /\ db \in [{"SPY"} -> Columns(T)]
          /\ db_dates \in DateLists(T)
    /\ cfg = [cache |-> TRUE, numba |-> TRUE]
    /\ cost_bps = 0
    /\ pc = "metrics"
    /\ idx = Len(db_dates)
    /\ equity = R(START_EQUITY)
    /\ holdings = EmptyAlloc
    /\ prev_allocation = EmptyAlloc
    /\ equity_curve = SimulateFrom(tree, db, 0, 1, R(START_EQUITY), EmptyAlloc,
                                   EmptyAlloc, <<>>)
    /\ allocations = AllocationsOf(tree, db)
    /\ altExit_state = FreshAltExitState
    /\ rebalanced = FALSE
    /\ result = "none"
    /\ split_config \in SplitConfigs
    /\ NUMBA_AVAILABLE \in BOOLEAN
    /\ split = [status |-> "none"]
    /\ metrics = NoMetrics /\ is_metrics = NoMetrics /\ oos_metrics = NoMetrics

\* metrics = self.calculate_metrics(equity_curve, db, mode, allocations=allocations)
WholeMetrics ==
    /\ pc = "metrics"
    /\ metrics' = calculate_metrics(equity_curve, allocations, NUMBA_AVAILABLE)
    /\ pc' = "split"
    /\ UNCHANGED <<split, is_metrics, oos_metrics>>

\* the branch of run_backtest for splitConfig.enabled
SplitBars ==
    /\ pc = "split"
    /\ split_config.enabled
    /\ split' = SplitIndices(db_dates,
                             split_dates(db_dates, split_config.strategy,
                                         ChronologicalDate(db_dates, split_config)))
    /\ is_metrics' = SliceMetrics(equity_curve, allocations, split'.is_indices,
                                  NUMBA_AVAILABLE)
    /\ oos_metrics' = SliceMetrics(equity_curve, allocations, split'.oos_indices,
                                   NUMBA_AVAILABLE)
    /\ pc' = "returned"
    /\ result' = "ok"
    /\ UNCHANGED metrics

\* the branch without a split: the full metrics are the IS metrics
NoSplit ==
    /\ pc = "split"
    /\ ~split_config.enabled
    /\ is_metrics' = metrics
    /\ pc' = "returned"
    /\ result' = "ok"
    /\ UNCHANGED <<split, metrics, oos_metrics>>

InitSplit ==
    /\ SplitInit /\ CondIdle /\ PanelIdle /\ CacheIdle /\ SweepIdle /\ GenIdle
    /\ WorkerIdle /\ RcIdle /\ LateIdle

SplitKept ==
    <<tree, db, cfg, cost_bps, idx, equity, holdings, prev_allocation, equity_curve,
      allocations, altExit_state, rebalanced, db_dates, split_config, NUMBA_AVAILABLE,
      condVars, panelVars, cacheVars, sweepVars, genVars, workerVars, rcVars,
      lateVars>>

NextSplit ==
    \/ WholeMetrics /\ UNCHANGED <<result, SplitKept>>
    \/ SplitBars /\ UNCHANGED SplitKept
    \/ NoSplit /\ UNCHANGED SplitKept

SpecSplit == InitSplit /\ [][NextSplit]_vars

-----------------------------------------------------------------------------
(* Properties of the split and of the metrics of a slice *)

Bars == 1..Len(db_dates)

\* C15: whatever the split strategy and the panel, the IS and OOS bar indices of
\* a backtest are disjoint, together they are all the bars, and their counts
\* add up to the number of bars.
C15_SplitIsPartition ==
    split.status = "done" =>
        /\ SeqRange(split.is_indices) \cap SeqRange(split.oos_indices) = {}
        /\ SeqRange(split.is_indices) \cup SeqRange(split.oos_indices) = Bars
        /\ Len(split.is_indices) + Len(split.oos_indices) = Len(db_dates)

\* A split by month whose IS bars are not consecutive
C15_Witness ==
    /\ split.status = "done" /\ split_config.strategy = "even_odd_month"
    /\ split.is_indices = <<1, 3>> /\ split.oos_indices = <<2, 4>>

\* C16: with strategy chronological and a percentage p instead of a date, the
\* first floor(T p / 100) bars are IS and all later bars are OOS, for every p from
\* 0 to 100 and every number of bars T.
C16_PercentSplitsAtFloor ==
    ( /\ split.status = "done" /\ split_config.strategy = "chronological"
      /\ split_config.chronologicalDate = NoDate )
    => /\ SeqRange(split.is_indices)
              = 1..((Len(db_dates) * split_config.chronologicalPercent) \div 100)
       /\ SeqRange(split.oos_indices)
              = Bars \ SeqRange(split.is_indices)

\* the invested bars of a slice that have a next bar in the whole simulation
InvestedIn(indices) ==
    {i \in SeqRange(indices) : allocations[i] # EmptyAlloc /\ i < Len(equity_curve)}

NextBarWinRate(ms, indices) ==
    ms.status = "done" => ms.winRate = WinRate(equity_curve, InvestedIn(indices))

\* C17: the win_rate of the metrics of a slice S is the fraction, over the
\* invested bars i of S, of the bars whose return from bar i to bar i+1 of the
\* whole equity curve is positive.
C17_WinRateUsesFullCurve ==
    split.status = "done" =>
        /\ NextBarWinRate(is_metrics, split.is_indices)
        /\ NextBarWinRate(oos_metrics, split.oos_indices)

ZeroWhereDenominatorVanishes(ms, values, returns) ==
    /\ (Len(values) < 2 \/ ZeroStd(returns)) => ms.sharpe = Exact(R(0))
    /\ ( \/ Len(values) < 2
         \/ SelectSeq(returns, IsNegative) = <<>>
         \/ ZeroStd(SelectSeq(returns, IsNegative)) ) => ms.sortino = Exact(R(0))
    /\ (Len(values) < 2 \/ calculate_max_drawdown(values) = R(0))
           => ms.calmar = Exact(R(0))

ZeroOn(ms, values) ==
    ms.status = "done" => ZeroWhereDenominatorVanishes(ms, values, Returns(values))

\* C18: for a curve with fewer than 2 values, with returns of zero variance, with
\* no negative return (or negative returns of zero deviation), or with zero max
\* drawdown, the metric whose denominator vanishes - sharpe, sortino, calmar
\* - is returned as 0; this holds of the whole-curve metrics and of each slice.
C18_VanishingDenominatorGivesZero ==
    /\ ZeroOn(metrics, equity_curve)
    /\ split.status = "done" =>
          /\ ZeroOn(is_metrics, Pick(equity_curve, split.is_indices))
          /\ ZeroOn(oos_metrics, Pick(equity_curve, split.oos_indices))

-----------------------------------------------------------------------------
(* Specification of the persistent worker: persistent_worker.main after it has *)
(* printed {"status": "ready"}.  A line of stdin is                             *)
(*   - a JSON object: a task (with or without tree and branchId) or the        *)
(*     shutdown command,                                                        *)
(*   - valid JSON that is not an object (an array), or                          *)
(*   - not JSON at all.                                                         *)
(* The tree of a task is "none" (absent), "good", or "bad" (run_backtest        *)
(* raises on it, e.g. for lack of overlapping price data).                      *)

BranchIds == {"b1", "b2"}

TaskLine(id, t) == [json |-> "object", command |-> "none", branchId |-> id, tree |-> t]
ShutdownLine == [json |-> "object", command |-> "shutdown", branchId |-> "absent",
                 tree |-> "none"]
ArrayLine == [json |-> "array", command |-> "none", branchId |-> "absent",
              tree |-> "none"]
InvalidLine == [json |-> "invalid", command |-> "none", branchId |-> "absent",
                tree |-> "none"]

InputLines ==
    {TaskLine(id, t) : id \in BranchIds \cup {"absent"}, t \in {"none", "good", "bad"}}
        \cup {ShutdownLine, ArrayLine, InvalidLine}

\* task.get('branchId', 'unknown')
BranchIdOf(t) == IF t.branchId = "absent" THEN "unknown" ELSE t.branchId

ResultRecord(id) == [kind |-> "result", error |-> "none", branchId |-> id]
ErrorRecord(msg, id) == [kind |-> "error", error |-> msg, branchId |-> id]

WorkerInit ==
    /\ stdin = <<>> /\ stdout = <<>> /\ task = [bound |-> FALSE] /\ consumed = <<>>
    /\ wstate = "running"

\* the coordinator writes one more line
WorkerSend ==
    /\ Len(consumed) + Len(stdin) < MaxLines
    /\ \E line \in InputLines : stdin' = Append(stdin, line)
    /\ UNCHANGED <<stdout, task, consumed, wstate>>

\* readline() returns '': EOF
WorkerEOF ==
    /\ wstate = "running" /\ stdin = <<>>
    /\ wstate' = "stopped"
    /\ UNCHANGED <<stdin, stdout, task, consumed>>

ReadLine ==
    /\ wstate = "running" /\ stdin # <<>>
    /\ stdin' = Tail(stdin)
    /\ consumed' = Append(consumed, Head(stdin))

\* json.loads(line) raises: task keeps the value of the previous iteration, and
\* the handler reads the branchId from it
WorkerInvalid ==
    /\ ReadLine
    /\ Head(stdin).json = "invalid"
    /\ stdout' = Append(stdout,
                        ErrorRecord("JSONDecodeError",
                                    IF task.bound THEN BranchIdOf(task.value)
                                    ELSE "unknown"))
    /\ UNCHANGED <<task, wstate>>

\* json.loads(line) gives a list: task.get raises AttributeError in the try block
\* and again in the handler, which ends the loop in the outer handler
WorkerArray ==
    /\ ReadLine
    /\ Head(stdin).json = "array"
    /\ task' = [bound |-> TRUE, value |-> Head(stdin)]
    /\ stdout' = Append(stdout, ErrorRecord("Worker initialization failed", "absent"))
    /\ wstate' = "exited"

WorkerShutdown ==
    /\ ReadLine
    /\ Head(stdin).json = "object" /\ Head(stdin).command = "shutdown"
    /\ task' = [bound |-> TRUE, value |-> Head(stdin)]
    /\ wstate' = "stopped"
    /\ UNCHANGED stdout

\* what one task prints
TaskOutput(t) ==
    CASE t.tree = "none" -> ErrorRecord("Missing tree", BranchIdOf(t))
      [] t.tree = "bad" -> ErrorRecord("ValueError", BranchIdOf(t))
      [] OTHER -> ResultRecord(BranchIdOf(t))

WorkerTask ==
    /\ ReadLine
    /\ Head(stdin).json = "object" /\ Head(stdin).command # "shutdown"
    /\ task' = [bound |-> TRUE, value |-> Head(stdin)]
    /\ stdout' = Append(stdout, TaskOutput(Head(stdin)))
    /\ UNCHANGED wstate

InitWorker == CoreIdle /\ GenIdle /\ SplitIdle /\ RcIdle /\ LateIdle /\ WorkerInit

NextWorker ==
    \/ WorkerSend /\ UNCHANGED <<coreVars, genVars, splitVars, rcVars, lateVars>>
    \/ WorkerEOF /\ UNCHANGED <<coreVars, genVars, splitVars, rcVars, lateVars>>
    \/ WorkerInvalid /\ UNCHANGED <<coreVars, genVars, splitVars, rcVars, lateVars>>
    \/ WorkerArray /\ UNCHANGED <<coreVars, genVars, splitVars, rcVars, lateVars>>
    \/ WorkerShutdown /\ UNCHANGED <<coreVars, genVars, splitVars, rcVars, lateVars>>
    \/ WorkerTask /\ UNCHANGED <<coreVars, genVars, splitVars, rcVars, lateVars>>

SpecWorker == InitWorker /\ [][NextWorker]_vars

-----------------------------------------------------------------------------
(* Properties of the persistent worker *)

IsShutdown(line) == line.json = "object" /\ line.command = "shutdown"

\* the task lines read so far: every line but the shutdown command
TasksRead == SelectSeq(consumed, LAMBDA line : ~IsShutdown(line))

Fails(line) == line.json # "object" \/ line.tree # "good"

\* C19: a failing task (missing tree, malformed line, exception of the backtest)
\* aborts only that task: every task line read has exactly one output record,
\* the record of a failed task is an error record with that task's own branchId
\* (unknown when it has none), and the worker never exits on a task.
C19_FailureAbortsOnlyTheTask ==
    /\ Len(stdout) = Len(TasksRead)
    /\ \A k \in 1..Len(TasksRead) :
          k <= Len(stdout) =>
              /\ stdout[k].branchId = BranchIdOf(TasksRead[k])
              /\ Fails(TasksRead[k]) <=> stdout[k].kind = "error"
    /\ wstate # "exited"

-----------------------------------------------------------------------------
(* Specification of the result cache: result_cache.ResultCache.  A tree is a   *)
(* record of the fields of its JSON object; None is the string "None".  The    *)
(* 16 hexadecimal digits of the SHA-256 of the canonical JSON are taken to be   *)
(* collision free, so a cache key is the canonical structure itself.            *)

DEFAULT_MAX_SIZE == 10000      \* result_cache.py:182

keep_fields ==
    {"kind", "weighting", "conditions", "positions", "positionMode", "metric",
     "window", "bottom", "rank", "quantifier", "n", "items", "scaleMetric",
     "scaleWindow", "scaleTicker", "scaleFrom", "scaleTo", "entryConditions",
     "exitConditions", "children"}

\* c.get(key)
DictGet(c, key) == IF key \in DOMAIN c THEN c[key] ELSE "None"

NormalizeCondition(c) ==
    [key \in {"metric", "window", "ticker", "comparator", "threshold", "rightMetric",
              "rightWindow", "rightTicker", "type"} |-> DictGet(c, key)]

NormalizeItemCondition(c) ==
    [key \in {"metric", "window", "ticker", "comparator", "threshold", "type"} |->
        DictGet(c, key)]

NormalizeItem(item) ==
    [conditions |->
        IF "conditions" \in DOMAIN item
        THEN [i \in 1..Len(item.conditions) |->
                 NormalizeItemCondition(item.conditions[i])]
        ELSE <<>>]

RECURSIVE _normalize_tree(_)
_normalize_tree(t) ==
    [key \in DOMAIN t \cap keep_fields |->
        CASE key = "children" ->
                 [slot \in DOMAIN t[key] |->
                     [i \in 1..Len(t[key][slot]) |-> _normalize_tree(t[key][slot][i])]]
          [] key = "conditions" ->
                 [i \in 1..Len(t[key]) |-> NormalizeCondition(t[key][i])]
          [] key = "items" ->
                 [i \in 1..Len(t[key]) |-> NormalizeItem(t[key][i])]
          [] OTHER -> t[key]]

\* the structure whose canonical JSON is hashed
_compute_hash(t, options) ==
    [tree |-> _normalize_tree(t),
     options |->
        [mode |-> DictGet(options, "mode"),
         costBps |-> DictGet(options, "costBps"),
         splitConfig |->
            [strategy |-> DictGet(DictGet(options, "splitConfig"), "strategy"),
             oosStartDate |->
                 DictGet(DictGet(options, "splitConfig"), "oosStartDate")]]]

\* position of cache_key in self.cache, 0 when absent
KeyIndex(entries, cache_key) ==
    IF \E i \in 1..Len(entries) : entries[i].key = cache_key
    THEN CHOOSE i \in 1..Len(entries) : entries[i].key = cache_key
    ELSE 0

\* self.cache[cache_key] = result: a present key keeps its place
DictSet(entries, cache_key, value) ==
    IF KeyIndex(entries, cache_key) = 0
    THEN Append(entries, [key |-> cache_key, result |-> value])
    ELSE [entries EXCEPT ![KeyIndex(entries, cache_key)].result = value]

\* ---- the inputs ----

CacheCond(id, threshold, expanded) ==
    [id |-> id, type |-> "if", metric |-> "Relative Strength Index", window |-> 14,
     ticker |-> "SPY", comparator |-> "lt", threshold |-> threshold,
     expanded |-> expanded, rightMetric |-> "Relative Strength Index",
     rightWindow |-> 14, rightTicker |-> "QQQ"]

CachePosition(id, ticker) ==
    [id |-> id, kind |-> "position", title |-> "Position", positions |-> <<ticker>>]

CacheChildren(prefix) ==
    [then |-> <<CachePosition(prefix \o "-then", "SPY")>>,
     else |-> <<CachePosition(prefix \o "-else", "BIL")>>]

IndicatorTree(id, title, cid, threshold, expanded) ==
    [id |-> id, kind |-> "indicator", title |-> title, weighting |-> "equal",
     conditions |-> <<CacheCond(cid, threshold, expanded)>>,
     children |-> CacheChildren(id)]

NumberedTree(id, quantifier) ==
    [id |-> id, kind |-> "numbered", title |-> "Numbered", weighting |-> "equal",
     numbered |-> [quantifier |-> quantifier, n |-> 1,
                   items |-> <<[id |-> "item-1",
                                conditions |-> <<CacheCond("c1", 30, FALSE)>>]>>],
     children |-> CacheChildren(id)]

AltExitTree(id, cid) ==
    [id |-> id, kind |-> "altExit", title |-> "Enter/Exit", weighting |-> "equal",
     entryConditions |-> <<CacheCond(cid, 30, FALSE)>>,
     exitConditions |-> <<CacheCond(cid, 70, FALSE)>>,
     children |-> CacheChildren(id)]

CacheTrees ==
    {IndicatorTree("node-1", "RSI Check", "cond-1", 30, FALSE),
     IndicatorTree("node-2", "Different Title", "cond-2", 30, FALSE),
     IndicatorTree("node-1", "RSI Check", "cond-1", 40, FALSE),
     IndicatorTree("node-1", "RSI Check", "cond-1", 30, TRUE),
     NumberedTree("node-1", "any"), NumberedTree("node-1", "none"),
     AltExitTree("node-1", "cond-1"), AltExitTree("node-1", "cond-2")}

CacheOption(costBps, enabled, percent) ==
    [mode |-> "CC", costBps |-> costBps,
     splitConfig |-> [enabled |-> enabled, strategy |-> "chronological",
                      chronologicalPercent |-> percent]]

CacheOptions ==
    {CacheOption(5, FALSE, 50), CacheOption(0, FALSE, 50),
     CacheOption(5, TRUE, 50), CacheOption(5, TRUE, 80)}

\* ---- the operations ----

\* ResultCache(max_size): the global instance, or a small one
RcInit ==
    /\ \E size \in {1, DEFAULT_MAX_SIZE} :
          rcache = [max_size |-> size, cache |-> <<>>, hits |-> 0, misses |-> 0]
    /\ stored = <<>>
    /\ got = [called |-> FALSE]

\* set(tree, options, result): the result is named by the number of the call
RcSet ==
    /\ rcache.max_size > 0
    /\ Len(stored) < MaxSets
    /\ \E t \in CacheTrees, options \in CacheOptions :
          LET stored_result == Len(stored) + 1
              cache_key == _compute_hash(t, options)
              room == IF Len(rcache.cache) >= rcache.max_size
                      THEN Tail(rcache.cache) ELSE rcache.cache
          IN /\ rcache' = [rcache EXCEPT !.cache = DictSet(room, cache_key, stored_result)]
             /\ stored' = Append(stored, [tree |-> t, options |-> options,
                                          result |-> stored_result])
    /\ UNCHANGED got

RcGetHit ==
    /\ rcache.max_size > 0
    /\ rcache.hits + rcache.misses < MaxGets
    /\ \E t \in CacheTrees, options \in CacheOptions :
          LET at == KeyIndex(rcache.cache, _compute_hash(t, options))
          IN /\ at # 0
             /\ rcache' = [rcache EXCEPT !.hits = @ + 1]
             /\ got' = [called |-> TRUE, tree |-> t, options |-> options,
                        earlier |-> Len(stored), hit |-> TRUE,
                        result |-> rcache.cache[at].result]
    /\ UNCHANGED stored

RcGetMiss ==
    /\ rcache.max_size > 0
    /\ rcache.hits + rcache.misses < MaxGets
    /\ \E t \in CacheTrees, options \in CacheOptions :
          /\ KeyIndex(rcache.cache, _compute_hash(t, options)) = 0
          /\ rcache' = [rcache EXCEPT !.misses = @ + 1]
          /\ got' = [called |-> TRUE, tree |-> t, options |-> options,
                     earlier |-> Len(stored), hit |-> FALSE, result |-> 0]
    /\ UNCHANGED stored

InitResultCache == CoreIdle /\ GenIdle /\ SplitIdle /\ WorkerIdle /\ LateIdle /\ RcInit

NextResultCache ==
    \/ RcSet /\ UNCHANGED <<coreVars, genVars, splitVars, workerVars, lateVars>>
    \/ RcGetHit /\ UNCHANGED <<coreVars, genVars, splitVars, workerVars, lateVars>>
    \/ RcGetMiss /\ UNCHANGED <<coreVars, genVars, splitVars, workerVars, lateVars>>

SpecResultCache == InitResultCache /\ [][NextResultCache]_vars

-----------------------------------------------------------------------------
(* Properties of the result cache *)

\* a condition as Backtester._eval_condition reads it: everything but its id
ConditionRead(c) == [key \in DOMAIN c \ {"id"} |-> c[key]]

ConditionsRead(cs) == [i \in 1..Len(cs) |-> ConditionRead(cs[i])]

\* a tree as the evaluator reads it: every field but the ids and the titles
RECURSIVE TreeRead(_)
TreeRead(t) ==
    [key \in DOMAIN t \ {"id", "title"} |->
        CASE key = "children" ->
                 [slot \in DOMAIN t[key] |->
                     [i \in 1..Len(t[key][slot]) |-> TreeRead(t[key][slot][i])]]
          [] key \in {"conditions", "entryConditions", "exitConditions"} ->
                 ConditionsRead(t[key])
          [] key = "numbered" ->
                 [quantifier |-> t[key].quantifier, n |-> t[key].n,
                  items |-> [i \in 1..Len(t[key].items) |->
                                [conditions |->
                                    ConditionsRead(t[key].items[i].conditions)]]]
          [] OTHER -> t[key]]

\* the options as run_backtest reads them: the split settings count only when the
\* split is enabled
OptionsRead(options) ==
    [mode |-> options.mode, costBps |-> options.costBps,
     splitConfig |->
        IF options.splitConfig.enabled
        THEN [enabled |-> TRUE, strategy |-> options.splitConfig.strategy,
              chronologicalPercent |-> options.splitConfig.chronologicalPercent]
        ELSE [enabled |-> FALSE]]

Agree(a, b) ==
    /\ TreeRead(a.tree) = TreeRead(b.tree)
    /\ OptionsRead(a.options) = OptionsRead(b.options)

\* the earlier calls of set that agree with the arguments of the last get
Agreeing == {k \in 1..got.earlier : Agree(stored[k], got)}

\* C20: as long as nothing was evicted, get(tree, options) returns a stored
\* result exactly when an earlier set agrees with (tree, options) on every field
\* that affects the result of the backtest, and the result is that of such a set.
C20_HitIffSameBacktest ==
    (got.called /\ got.earlier <= rcache.max_size) =>
        /\ got.hit <=> Agreeing # {}
        /\ got.hit => got.result \in Agreeing

-----------------------------------------------------------------------------
(* Specification of the forge: optimized_forge_engine.run_forge_optimized.     *)
(* The pool hands the tasks to free worker processes in the order of           *)
(* worker_args; imap_unordered yields a task's result once the task is done.    *)
(* A passing branch is recorded with the ticker it belongs to.                  *)

ForgeTickers == {"A", "B", "C"}

\* the sequences of distinct tickers of at most MaxTickers
TickerLists ==
    UNION {{s \in [1..n -> ForgeTickers] : \A i, j \in 1..n : i # j => s[i] # s[j]} :
              n \in 1..MaxTickers}

\* what worker_process_ticker returns: n passing branches, none after an exception
TickerResults(ticker, n) == [j \in 1..n |-> [ticker |-> ticker, branch |-> j]]

ForgeInit ==
    \E tickers \in TickerLists, num_workers \in 1..MaxWorkers :
        forge = [pc |-> "pool", tickers |-> tickers, num_workers |-> num_workers,
                 next |-> 1, running |-> {}, done |-> <<>>, all_results |-> <<>>,
                 completed_tickers |-> 0]

\* a free process of the pool takes the next task
ForgeTake ==
    /\ forge.pc = "pool"
    /\ forge.next <= Len(forge.tickers)
    /\ Cardinality(forge.running) < forge.num_workers
    /\ forge' = [forge EXCEPT !.running = @ \cup {forge.next}, !.next = @ + 1]

\* worker_process_ticker returns in one of the processes
ForgeFinish ==
    /\ forge.pc = "pool"
    /\ \E i \in forge.running, n \in 0..MaxPassing :
          forge' = [forge EXCEPT
                       !.running = @ \ {i},
                       !.done = Append(@, TickerResults(forge.tickers[i], n))]

\* one iteration of the for loop over imap_unordered
ForgeCollect ==
    /\ forge.pc = "pool"
    /\ forge.done # <<>>
    /\ forge' = [forge EXCEPT
                    !.all_results = @ \o Head(forge.done),
                    !.done = Tail(@),
                    !.completed_tickers = @ + 1]

\* the iterator is exhausted: the pool is closed and the dictionary returned
ForgeReturn ==
    /\ forge.pc = "pool"
    /\ forge.completed_tickers = Len(forge.tickers)
    /\ forge' = [forge EXCEPT !.pc = "returned"]

InitForge == CoreIdle /\ EarlyIdle /\ LateIdleBut({"forge"}) /\ ForgeInit

NextForge ==
    \/ ForgeTake /\ UNCHANGED earlyVars /\ KeepLate({"forge"})
    \/ ForgeFinish /\ UNCHANGED earlyVars /\ KeepLate({"forge"})
    \/ ForgeCollect /\ UNCHANGED earlyVars /\ KeepLate({"forge"})
    \/ ForgeReturn /\ UNCHANGED earlyVars /\ KeepLate({"forge"})

SpecForge == InitForge /\ [][NextForge]_vars

-----------------------------------------------------------------------------
(* Properties of the forge *)

\* the place of a ticker in config['tickers']
InputPlace(ticker) == CHOOSE i \in 1..Len(forge.tickers) : forge.tickers[i] = ticker

\* C21: the result list run_forge_optimized returns is in input order: the
\* results of a ticker precede the results of every ticker listed after it,
\* whatever the order in which the worker processes complete.
C21_ResultsInInputOrder ==
    forge.pc = "returned" =>
        \A p, q \in 1..Len(forge.all_results) :
            p < q => InputPlace(forge.all_results[p].ticker)
                         <= InputPlace(forge.all_results[q].ticker)

-----------------------------------------------------------------------------
(* Specification of the price data cache: optimized_dataloader.PriceDataCache. *)
(* self.cache is a dict: the sequence of its keys in insertion order.  A data  *)
(* frame is named by its ticker; the frame of a ticker without a parquet file   *)
(* is empty.                                                                     *)

OnDisk == {"A", "B", "C", "SPY"}
Requested == {"A", "B", "C", "spy", "M"}

\* the tickers of hot_tickers with a parquet file, in the order of the list
HotLists == {<<>>, <<"SPY">>}

InCache(cache, ticker) == \E i \in 1..Len(cache) : cache[i] = ticker

\* __init__ and _preload_hot_cache: the hot tickers are stored without a limit.
\* accessed[t] is the number of the last call of get_ticker_data that returned
\* the frame of t, 0 for a frame no call has returned yet
PdcInit ==
    \E cache_size \in 1..MaxCacheSize, hot \in HotLists :
        pdc = [pc |-> "ready", cache |-> hot, cache_size |-> cache_size,
               hit_count |-> 0, miss_count |-> 0,
               accessed |-> [t \in OnDisk |-> 0],
               last |-> [evicted |-> <<>>, kept |-> {}, accessed |-> <<>>]]

\* get_ticker_data, ticker in the cache
PdcHit ==
    /\ pdc.pc = "ready"
    /\ pdc.hit_count + pdc.miss_count < MaxAccesses
    /\ \E requested \in Requested :
          /\ InCache(pdc.cache, Upper(requested))
          /\ pdc' = [pdc EXCEPT
                        !.hit_count = @ + 1,
                        !.accessed[Upper(requested)] =
                            pdc.hit_count + pdc.miss_count + 1,
                        !.last = [evicted |-> <<>>, kept |-> {},
                                  accessed |-> pdc.accessed]]

\* get_ticker_data, ticker not in the cache and no parquet file: nothing is stored
PdcMissEmpty ==
    /\ pdc.pc = "ready"
    /\ pdc.hit_count + pdc.miss_count < MaxAccesses
    /\ \E requested \in Requested :
          /\ ~InCache(pdc.cache, Upper(requested))
          /\ Upper(requested) \notin OnDisk
          /\ pdc' = [pdc EXCEPT
                        !.miss_count = @ + 1,
                        !.last = [evicted |-> <<>>, kept |-> {},
                                  accessed |-> pdc.accessed]]

\* get_ticker_data, ticker not in the cache and loaded from its parquet file
PdcMissLoad ==
    /\ pdc.pc = "ready"
    /\ pdc.hit_count + pdc.miss_count < MaxAccesses
    /\ \E requested \in Requested :
          LET full == Len(pdc.cache) >= pdc.cache_size
              room == IF full THEN Tail(pdc.cache) ELSE pdc.cache
          IN /\ ~InCache(pdc.cache, Upper(requested))
             /\ Upper(requested) \in OnDisk
             /\ pdc' = [pdc EXCEPT
                           !.miss_count = @ + 1,
                           !.cache = Append(room, Upper(requested)),
                           !.accessed[Upper(requested)] =
                               pdc.hit_count + pdc.miss_count + 1,
                           !.last = [evicted |-> IF full THEN <<Head(pdc.cache)>>
                                                 ELSE <<>>,
                                     kept |-> {room[i] : i \in 1..Len(room)},
                                     accessed |-> pdc.accessed]]

InitPdc == CoreIdle /\ EarlyIdle /\ LateIdleBut({"pdc"}) /\ PdcInit

NextPdc ==
    \/ PdcHit /\ UNCHANGED earlyVars /\ KeepLate({"pdc"})
    \/ PdcMissEmpty /\ UNCHANGED earlyVars /\ KeepLate({"pdc"})
    \/ PdcMissLoad /\ UNCHANGED earlyVars /\ KeepLate({"pdc"})

SpecPdc == InitPdc /\ [][NextPdc]_vars

-----------------------------------------------------------------------------
(* Properties of the price data cache *)

\* C22: when the cache is at capacity and a new ticker is loaded, the entry
\* evicted is the least recently used one: no entry that is kept was accessed
\* (hit or load) before the last access of the evicted entry.
C22_EvictsLeastRecentlyUsed ==
    pdc.pc = "ready" =>
        \A i \in 1..Len(pdc.last.evicted) : \A k \in pdc.last.kept :
            pdc.last.accessed[pdc.last.evicted[i]] <= pdc.last.accessed[k]

-----------------------------------------------------------------------------
(* Specification of the walk-forward: RollingOptimizer.run_rolling_optimization *)
(* with rollingWindowPeriod yearly.  Dates are days since 2019-01-01.  The      *)
(* prices are not modelled: a backtest is recorded by the bars it ran over, and  *)
(* the best branch is any branch of is_results.                                  *)

RollDays == {200, 400, 600, 800}
RollYears == {2020, 2021}

\* the (oos_start, oos_end) pairs of get_oos_periods
RECURSIVE get_oos_periods(_, _)
get_oos_periods(start_year, end_year) ==
    IF start_year > end_year THEN <<>>
    ELSE <<[oos_start |-> timestamp([year |-> start_year, month |-> 1, day |-> 1]),
            oos_end |-> timestamp([year |-> start_year, month |-> 12, day |-> 31])]>>
             \o get_oos_periods(start_year + 1, end_year)

\* db['dates'] of Backtester.run_backtest(tree, options): the panel is built from
\* the tickers of the tree alone; startDate and endDate of the options are not read
BacktestDates(store, options) == store

\* list.sort(key=lambda x: x[0]) of equity points, each named by its timestamp
RECURSIVE SortPoints(_)
SortPoints(s) ==
    IF s = <<>> THEN <<>>
    ELSE LET rest == SortPoints(Tail(s))
         IN SelectSeq(rest, LAMBDA x : x < Head(s)) \o <<Head(s)>>
                \o SelectSeq(rest, LAMBDA x : x >= Head(s))

ISOptions(is_end) == [mode |-> "CC", endDate |-> is_end]
OOSOptions(oos_start, oos_end) ==
    [mode |-> "CC", startDate |-> oos_start, endDate |-> oos_end]

RollInit ==
    \E T \in 1..MaxRollBars, n \in 1..MaxRollBranches, start_year \in RollYears,
       end_year \in RollYears, valid \in BOOLEAN, has_tree \in BOOLEAN,
       usable \in BOOLEAN :
        \E store \in {ds \in [1..T -> RollDays] : Ascending(ds)} :
            roll = [pc |-> "start", store |-> store, usable |-> usable,
                    valid |-> valid, has_tree |-> has_tree,
                    start_year |-> start_year, end_year |-> end_year,
                    n_branches |-> n, oos_periods |-> <<>>, period_idx |-> 0,
                    branch_idx |-> 0, is_results |-> <<>>, is_runs |-> <<>>,
                    oos_runs |-> <<>>, all_oos_equity |-> <<>>,
                    selected_branches |-> <<>>, success |-> FALSE]

\* steps 1 to 3 fail: no valid ticker, or no tree
RollRefuse ==
    /\ roll.pc = "start"
    /\ ~roll.valid \/ ~roll.has_tree
    /\ roll' = [roll EXCEPT !.pc = "returned"]

\* steps 1 to 3: the tickers are filtered, the windows and the branches generated
RollPrepare ==
    /\ roll.pc = "start"
    /\ roll.valid /\ roll.has_tree
    /\ roll' = [roll EXCEPT
                   !.oos_periods = get_oos_periods(roll.start_year, roll.end_year),
                   !.period_idx = 1, !.branch_idx = 1, !.pc = "is"]

ThisPeriod == roll.oos_periods[roll.period_idx]

\* one iteration of the loop over the branches: the IS backtest of a branch
RollIS ==
    /\ roll.pc = "is"
    /\ roll.period_idx <= Len(roll.oos_periods)
    /\ roll.branch_idx <= roll.n_branches
    /\ LET run == [period |-> roll.period_idx, branch_id |-> roll.branch_idx,
                   bars |-> BacktestDates(roll.store,
                                          ISOptions(ThisPeriod.oos_start - 1))]
       IN roll' = [roll EXCEPT
                      !.branch_idx = @ + 1,
                      !.is_runs = IF roll.usable THEN Append(@, run) ELSE @,
                      !.is_results = IF roll.usable THEN Append(@, run) ELSE @]

\* no branch passed the IS period: the window is skipped
RollSkip ==
    /\ roll.pc = "is"
    /\ roll.period_idx <= Len(roll.oos_periods)
    /\ roll.branch_idx > roll.n_branches
    /\ roll.is_results = <<>>
    /\ roll' = [roll EXCEPT !.period_idx = @ + 1, !.branch_idx = 1]

\* the best branch is ranked and run on the OOS period
RollOOS ==
    /\ roll.pc = "is"
    /\ roll.period_idx <= Len(roll.oos_periods)
    /\ roll.branch_idx > roll.n_branches
    /\ roll.is_results # <<>>
    /\ \E b \in 1..Len(roll.is_results) :
          LET best_branch == roll.is_results[b]
              run == [period |-> roll.period_idx,
                      branch_id |-> best_branch.branch_id,
                      bars |-> BacktestDates(roll.store,
                                             OOSOptions(ThisPeriod.oos_start,
                                                        ThisPeriod.oos_end))]
          IN roll' = [roll EXCEPT
                         !.oos_runs = Append(@, run),
                         !.all_oos_equity = @ \o run.bars,
                         !.selected_branches = Append(@, best_branch.branch_id),
                         !.is_results = <<>>,
                         !.period_idx = @ + 1, !.branch_idx = 1]

\* step 5: the points are sorted by timestamp and the result returned
RollReturn ==
    /\ roll.pc = "is"
    /\ roll.period_idx > Len(roll.oos_periods)
    /\ roll' = [roll EXCEPT !.all_oos_equity = SortPoints(@), !.success = TRUE,
                            !.pc = "returned"]

InitRoll == CoreIdle /\ EarlyIdle /\ LateIdleBut({"roll"}) /\ RollInit

NextRoll ==
    \/ RollRefuse /\ UNCHANGED earlyVars /\ KeepLate({"roll"})
    \/ RollPrepare /\ UNCHANGED earlyVars /\ KeepLate({"roll"})
    \/ RollIS /\ UNCHANGED earlyVars /\ KeepLate({"roll"})
    \/ RollSkip /\ UNCHANGED earlyVars /\ KeepLate({"roll"})
    \/ RollOOS /\ UNCHANGED earlyVars /\ KeepLate({"roll"})
    \/ RollReturn /\ UNCHANGED earlyVars /\ KeepLate({"roll"})

SpecRoll == InitRoll /\ [][NextRoll]_vars

-----------------------------------------------------------------------------
(* Properties of the walk-forward *)

BarsOf(run) == {run.bars[i] : i \in 1..Len(run.bars)}

-----------------------------------------------------------------------------
(* Specification of the condition lists of the flowchart executor:              *)
(* FlowchartExecutor._evaluate_conditions on a frame of closes, with the metric  *)
(* Current Price (calculate_indicator returns the close column).  A boolean      *)
(* series is a sequence of booleans, one for each bar.                           *)

FxCloses == {1, 3}
FxTypes == {"if", "and", "or"}
FxComparators == {"lt", "gt", "crossAbove", "crossBelow"}

FxCond(type, comparator) ==
    [type |-> type, metric |-> "Current Price", window |-> 14,
     comparator |-> comparator, threshold |-> 2]

\* condition_met of one condition: the comparison against indicator_values.shift(1)
\* is False at the first bar, where the shifted value is NaN
ConditionMet(close, cond) ==
    [i \in 1..Len(close) |->
        CASE cond.comparator = "lt" -> close[i] < cond.threshold
          [] cond.comparator = "gt" -> close[i] > cond.threshold
          [] cond.comparator = "crossAbove" ->
                 i > 1 /\ close[i - 1] < cond.threshold /\ close[i] >= cond.threshold
          [] cond.comparator = "crossBelow" ->
                 i > 1 /\ close[i - 1] > cond.threshold /\ close[i] <= cond.threshold
          [] OTHER -> FALSE]

AllFalse(close) == [i \in 1..Len(close) |-> FALSE]
SeriesAnd(a, b) == [i \in 1..Len(a) |-> a[i] /\ b[i]]
SeriesOr(a, b) == [i \in 1..Len(a) |-> a[i] \/ b[i]]

NoSeries == [bound |-> FALSE]
Series(s) == [bound |-> TRUE, value |-> s]

\* the loop of _evaluate_conditions from condition k on, with result so far
RECURSIVE FxLoop(_, _, _, _)
FxLoop(close, conditions, k, sofar) ==
    IF k > Len(conditions) THEN sofar
    ELSE LET cond == conditions[k]
             condition_met == ConditionMet(close, cond)
         IN FxLoop(close, conditions, k + 1,
                   CASE cond.type = "if" -> Series(condition_met)
                     [] cond.type = "and" ->
                            IF sofar.bound
                            THEN Series(SeriesAnd(sofar.value, condition_met))
                            ELSE Series(condition_met)
                     [] cond.type = "or" ->
                            IF sofar.bound
                            THEN Series(SeriesOr(sofar.value, condition_met))
                            ELSE Series(condition_met)
                     [] OTHER -> sofar)

_evaluate_conditions(close, conditions) ==
    IF conditions = <<>> THEN AllFalse(close)
    ELSE IF FxLoop(close, conditions, 1, NoSeries).bound
         THEN FxLoop(close, conditions, 1, NoSeries).value
         ELSE AllFalse(close)

FxInit ==
    \E T \in 1..MaxFxBars : \E close \in [1..T -> FxCloses] :
        fx = [pc |-> "list", close |-> close, conditions |-> <<>>, out |-> <<>>]

\* the caller appends one more condition to the list
FxAdd ==
    /\ fx.pc = "list"
    /\ Len(fx.conditions) < MaxFxConds
    /\ \E type \in FxTypes, comparator \in FxComparators :
          fx' = [fx EXCEPT !.conditions = Append(@, FxCond(type, comparator))]

\* _evaluate_conditions on the list
FxEval ==
    /\ fx.pc = "list"
    /\ fx' = [fx EXCEPT !.pc = "done",
                        !.out = _evaluate_conditions(fx.close, fx.conditions)]

InitFx == CoreIdle /\ EarlyIdle /\ LateIdleBut({"fx"}) /\ FxInit

NextFx ==
    \/ FxAdd /\ UNCHANGED earlyVars /\ KeepLate({"fx"})
    \/ FxEval /\ UNCHANGED earlyVars /\ KeepLate({"fx"})

SpecFx == InitFx /\ [][NextFx]_vars

-----------------------------------------------------------------------------
(* Properties of the flowchart condition lists *)

\* a list as the editor writes it: an if line followed by and / or lines
FxWellFormed(conditions) ==
    /\ conditions # <<>>
    /\ conditions[1].type = "if"
    /\ \A k \in 2..Len(conditions) : conditions[k].type \in {"and", "or"}

\* the last line of the AND-group that starts at line s
GroupEnd(conditions, s) ==
    CHOOSE e \in s..Len(conditions) :
        /\ \A k \in (s + 1)..e : conditions[k].type = "and"
        /\ e = Len(conditions) \/ conditions[e + 1].type # "and"

\* the disjunction of the AND-groups at bar i
OrOfAndGroups(close, conditions, i) ==
    \E s \in 1..Len(conditions) :
        /\ s = 1 \/ conditions[s].type = "or"
        /\ \A k \in s..GroupEnd(conditions, s) : ConditionMet(close, conditions[k])[i]

\* C25: _evaluate_conditions combines a list with AND binding tighter than OR: at
\* every bar the series it returns is the disjunction of the AND-groups of the
\* list ([if A, or B, and C] is A or (B and C)).
C25_AndBindsTighterThanOr ==
    (fx.pc = "done" /\ FxWellFormed(fx.conditions)) =>
        \A i \in 1..Len(fx.close) :
            fx.out[i] <=> OrOfAndGroups(fx.close, fx.conditions, i)

-----------------------------------------------------------------------------
(* Specification of the value loop of generate_branches (rolling) and of       *)
(* generate_parameter_combinations (flowchart) for one enabled range, one       *)
(* iteration at a time:                                                         *)
(*     current = min_val                                                        *)
(*     while current <= max_val: values.append(current); current += step        *)
(* Only the first MaxLoop values are recorded, and a current that has fallen    *)
(* MaxLoop below min_val is recorded as that floor: from there on the loop      *)
(* condition cannot change.  lap is the parity of the iterations run, so that   *)
(* an iteration is a step of its own even when nothing else changes any more.   *)

StepChoices == -1..MaxStep

EnumInit ==
    \E kind \in {"rolling", "flowchart"}, min_val \in 1..MaxValue,
       max_val \in 1..MaxValue, step \in StepChoices :
        enum = [pc |-> "loop", kind |-> kind, min |-> min_val, max |-> max_val,
                step |-> step, current |-> min_val, values |-> <<>>, lap |-> 0]

Recorded(values, current) ==
    IF Len(values) < MaxLoop THEN Append(values, current) ELSE values

NotBelow(current, floor) == IF current < floor THEN floor ELSE current

\* one iteration of the while loop
EnumStep ==
    /\ enum.pc = "loop"
    /\ enum.current <= enum.max
    /\ enum' = [enum EXCEPT
                   !.values = Recorded(@, enum.current),
                   !.lap = 1 - @,
                   !.current = NotBelow(@ + enum.step, enum.min - MaxLoop)]

\* the loop condition fails: generate_branches makes sure max is included
EnumExit ==
    /\ enum.pc = "loop"
    /\ enum.current > enum.max
    /\ enum' = [enum EXCEPT
                   !.pc = "done",
                   !.values = IF enum.kind = "rolling" THEN EnsureMax(@, enum.max)
                              ELSE @]

InitEnum == CoreIdle /\ EarlyIdle /\ LateIdleBut({"enum"}) /\ EnumInit

NextEnum ==
    \/ EnumStep /\ UNCHANGED earlyVars /\ KeepLate({"enum"})
    \/ EnumExit /\ UNCHANGED earlyVars /\ KeepLate({"enum"})

\* the interpreter keeps running the loop
SpecEnum == InitEnum /\ [][NextEnum]_vars /\ WF_vars(NextEnum)

-----------------------------------------------------------------------------
(* Properties of the value loop *)

\* C27: enumerating the values of an enabled range terminates with a finite
\* value list, ranges with step = 0 or step < 0 and min <= max included.
C27_EnumerationTerminates == <>(enum.pc = "done")

-----------------------------------------------------------------------------
(* Specification of the branch trees: RollingOptimizer.generate_branches with  *)
(* _apply_param_to_tree and _find_and_update_condition.  An id is the sequence  *)
(* of its characters, a path the sequence of its dot-separated parts.           *)

\* needle in hay, for Python strings
IsSubstring(needle, hay) ==
    \E i \in 0..(Len(hay) - Len(needle)) : SubSeq(hay, i + 1, i + Len(needle)) = needle

IdC1 == <<"c", "1">>
IdC2 == <<"c", "2">>
IdC12 == <<"c", "1", "2">>
IdC9 == <<"c", "9">>

ApplyCond(id) == [id |-> id, window |-> 14, threshold |-> 30]

ApplyNode(id, conditions, then) ==
    [id |-> id, kind |-> "indicator", conditions |-> conditions,
     children |-> [then |-> then, else |-> <<>>]]

ApplyTrees ==
    {ApplyNode("n1", <<ApplyCond(IdC1), ApplyCond(IdC2)>>, <<>>),
     ApplyNode("n1", <<ApplyCond(IdC12), ApplyCond(IdC1)>>, <<>>),
     ApplyNode("n1", <<ApplyCond(IdC1)>>,
               <<ApplyNode("n2", <<ApplyCond(IdC2)>>, <<>>)>>)}

ConditionPath(id, field) == <<"node", "conditions", id, field>>

ApplyPaths ==
    {ConditionPath(id, field) : id \in {IdC1, IdC2, IdC12, IdC9},
                                field \in {"window", "threshold"}}
        \cup {<<"node", "window">>}

ApplyRange(path, max_val) ==
    [enabled |-> TRUE, min |-> 1, max |-> max_val, step |-> 1, path |-> path]

\* the loop over node['conditions']: the first condition whose id contains
\* condition_id gets the value; 0 when there is none
FirstMatch(conditions, condition_id) ==
    IF \E k \in 1..Len(conditions) : IsSubstring(condition_id, conditions[k].id)
    THEN CHOOSE k \in 1..Len(conditions) :
             /\ IsSubstring(condition_id, conditions[k].id)
             /\ \A j \in 1..(k - 1) : ~IsSubstring(condition_id, conditions[j].id)
    ELSE 0

\* _find_and_update_condition: the node after the call and whether it found one
RECURSIVE _find_and_update_condition(_, _, _, _)
RECURSIVE UpdateChildren(_, _, _, _)

\* the loop over the children of one slot, from the first child on
UpdateChildren(children, condition_id, field, value) ==
    IF children = <<>> THEN [found |-> FALSE, children |-> <<>>]
    ELSE LET first == _find_and_update_condition(Head(children), condition_id,
                                                 field, value)
         IN IF first.found
            THEN [found |-> TRUE, children |-> <<first.node>> \o Tail(children)]
            ELSE LET rest == UpdateChildren(Tail(children), condition_id, field,
                                            value)
                 IN [found |-> rest.found,
                     children |-> <<Head(children)>> \o rest.children]

_find_and_update_condition(node, condition_id, field, value) ==
    IF FirstMatch(node.conditions, condition_id) # 0
    THEN [found |-> TRUE,
          node |-> [node EXCEPT
                       !.conditions[FirstMatch(node.conditions, condition_id)] =
                           [key \in DOMAIN @ \cup {field} |->
                               IF key = field THEN value ELSE @[key]]]]
    ELSE LET then == UpdateChildren(node.children.then, condition_id, field, value)
         IN IF then.found
            THEN [found |-> TRUE, node |-> [node EXCEPT !.children.then = then.children]]
            ELSE LET else == UpdateChildren(node.children.else, condition_id, field,
                                            value)
                 IN [found |-> else.found,
                     node |-> [node EXCEPT !.children.else = else.children]]

_apply_param_to_tree(node, path, value) ==
    IF Len(path) >= 4 /\ path[2] = "conditions"
    THEN _find_and_update_condition(node, path[3], path[4], value).node
    ELSE node

\* the loop over the values of one combination, applied to the copy of the tree
RECURSIVE ApplyCombo(_, _, _, _)
ApplyCombo(tree_copy, enabled_ranges, combo, range_idx) ==
    IF range_idx > Len(combo) THEN tree_copy
    ELSE ApplyCombo(_apply_param_to_tree(tree_copy, enabled_ranges[range_idx].path,
                                         combo[range_idx]),
                    enabled_ranges, combo, range_idx + 1)

\* the branches of generate_branches(tree, parameter_ranges), each with its tree
BranchesWithTrees(base, parameter_ranges) ==
    [k \in 1..Len(generate_branches(parameter_ranges)) |->
        [id |-> generate_branches(parameter_ranges)[k].id,
         params |-> generate_branches(parameter_ranges)[k].params,
         tree |-> ApplyCombo(base, EnabledRanges(parameter_ranges),
                             generate_branches(parameter_ranges)[k].params, 1)]]

ApplyInit ==
    \E base \in ApplyTrees :
        applied = [pc |-> "ranges", tree |-> base, parameter_ranges |-> <<>>,
                   branches |-> <<>>]

\* the caller adds a range whose path no earlier range has
ApplyAddRange ==
    /\ applied.pc = "ranges"
    /\ Len(applied.parameter_ranges) < MaxPaths
    /\ \E path \in ApplyPaths, max_val \in 1..2 :
          /\ \A k \in 1..Len(applied.parameter_ranges) :
                applied.parameter_ranges[k].path # path
          /\ applied' = [applied EXCEPT
                            !.parameter_ranges = Append(@, ApplyRange(path, max_val))]

\* generate_branches(tree, parameter_ranges): every branch works on a deep copy
ApplyGenerate ==
    /\ applied.pc = "ranges"
    /\ applied' = [applied EXCEPT
                      !.pc = "done",
                      !.branches = BranchesWithTrees(applied.tree,
                                                     applied.parameter_ranges)]

InitApply == CoreIdle /\ EarlyIdle /\ LateIdleBut({"applied"}) /\ ApplyInit

NextApply ==
    \/ ApplyAddRange /\ UNCHANGED earlyVars /\ KeepLate({"applied"})
    \/ ApplyGenerate /\ UNCHANGED earlyVars /\ KeepLate({"applied"})

SpecApply == InitApply /\ [][NextApply]_vars

-----------------------------------------------------------------------------
(* Properties of the branch trees *)

\* the tree with field of the conditions whose id is condition_id set to value
RECURSIVE WithField(_, _, _, _)
WithField(node, condition_id, field, value) ==
    [node EXCEPT
        !.conditions = [k \in 1..Len(@) |->
                           IF @[k].id = condition_id
                           THEN [@[k] EXCEPT ![field] = value] ELSE @[k]],
        !.children = [slot \in DOMAIN @ |->
                         [k \in 1..Len(@[slot]) |->
                             WithField(@[slot][k], condition_id, field, value)]]]

\* the base tree with the fields of a combination set, range by range
RECURSIVE WithFields(_, _, _, _)
WithFields(t, paths, combo, k) ==
    IF k > Len(combo) THEN t
    ELSE WithFields(WithField(t, paths[k].path[3], paths[k].path[4], combo[k]),
                    paths, combo, k + 1)

RECURSIVE ConditionIds(_)
ConditionIds(node) ==
    {node.conditions[k].id : k \in 1..Len(node.conditions)}
        \cup UNION {UNION {ConditionIds(node.children[slot][k]) :
                              k \in 1..Len(node.children[slot])} :
                       slot \in DOMAIN node.children}

\* every range names a condition of the tree by its id
NamesConditions(t, parameter_ranges) ==
    \A k \in 1..Len(parameter_ranges) :
        /\ Len(parameter_ranges[k].path) = 4
        /\ parameter_ranges[k].path[3] \in ConditionIds(t)

\* C28: applying a range whose path names condition id c and field f overwrites
\* field f of exactly the condition whose id is c and nothing else of the
\* variant's tree, and the base tree stays as it was.
C28_OnlyTheNamedConditionChanges ==
    [][(applied.pc = "ranges" /\ applied'.pc = "done"
            /\ NamesConditions(applied.tree, applied.parameter_ranges)) =>
          /\ applied'.tree = applied.tree
          /\ \A b \in 1..Len(applied'.branches) :
                applied'.branches[b].tree =
                    WithFields(applied.tree, applied.parameter_ranges,
                               applied'.branches[b].params, 1)]_vars

-----------------------------------------------------------------------------
(* Specification of the worker's startup: persistent_worker.main from its first *)
(* readline to the task loop.  A key the config line leaves out reads as its     *)
(* default, which is as falsy as the empty value the model gives it.             *)

BootConfigs ==
    [parquetDir : {"", "parquet"},
     preloadTickers : {<<>>, <<"SPY">>, <<"SPY", "QQQ">>},
     preloadIndicators : {{}, {"RSI"}},
     sharedMemoryMetadata : {{}, {"SPY"}}]

ReadyRecord == [status |-> "ready"]
MissingParquetDir == [error |-> "Missing parquetDir"]
InitializationFailed == [error |-> "Worker initialization failed"]
BootResult(k) == [branchId |-> k]

\* has_config is FALSE when stdin is at its end before any line
BootInit ==
    \E has_config \in BOOLEAN, config \in BootConfigs, tasks \in 0..MaxBootTasks :
        boot = [pc |-> "start", has_config |-> has_config, config |-> config,
                tasks |-> tasks, consumed |-> 0, attached |-> FALSE,
                stdout |-> <<>>]

\* first_line = sys.stdin.readline(); if not first_line: sys.exit(0)
BootNoInput ==
    /\ boot.pc = "start"
    /\ ~boot.has_config
    /\ boot' = [boot EXCEPT !.pc = "exited"]

\* the config line is parsed; without parquet_dir the worker writes an error
\* and exits, otherwise it creates its Backtester
BootConfig ==
    /\ boot.pc = "start"
    /\ boot.has_config
    /\ IF boot.config.parquetDir = ""
       THEN boot' = [boot EXCEPT !.pc = "exited", !.consumed = 1,
                                 !.stdout = Append(@, MissingParquetDir)]
       ELSE boot' = [boot EXCEPT !.pc = "attach", !.consumed = 1]

\* if shared_memory_metadata: try: attach ... except: shared_memory_reader = None
BootAttach ==
    /\ boot.pc = "attach"
    /\ \E ok \in BOOLEAN :
          boot' = [boot EXCEPT
                      !.pc = "preload",
                      !.attached = boot.config.sharedMemoryMetadata # {} /\ ok]

\* if preload_tickers or preload_indicators: every ticker is loaded inside its
\* own try, then cache.get_cache_info() is called.  PriceDataCache has get_stats
\* and no get_cache_info: the call raises AttributeError, which the except of
\* main turns into an error record and sys.exit(1).
BootPreload ==
    /\ boot.pc = "preload"
    /\ IF boot.config.preloadTickers # <<>> \/ boot.config.preloadIndicators # {}
       THEN boot' = [boot EXCEPT !.pc = "exited",
                                 !.stdout = Append(@, InitializationFailed)]
       ELSE boot' = [boot EXCEPT !.pc = "ready"]

\* print(json.dumps({'status': 'ready'}), flush=True)
BootReady ==
    /\ boot.pc = "ready"
    /\ boot' = [boot EXCEPT !.pc = "loop", !.stdout = Append(@, ReadyRecord)]

\* one turn of the loop on a task line: one record for the task
BootTask ==
    /\ boot.pc = "loop"
    /\ boot.consumed - 1 < boot.tasks
    /\ boot' = [boot EXCEPT !.consumed = @ + 1,
                            !.stdout = Append(@, BootResult(boot.consumed))]

\* line = sys.stdin.readline(); if not line: break
BootEOF ==
    /\ boot.pc = "loop"
    /\ boot.consumed - 1 = boot.tasks
    /\ boot' = [boot EXCEPT !.pc = "exited"]

InitBoot == CoreIdle /\ EarlyIdle /\ LateIdleBut({"boot"}) /\ BootInit

NextBoot ==
    \/ BootNoInput /\ UNCHANGED earlyVars /\ KeepLate({"boot"})
    \/ BootConfig /\ UNCHANGED earlyVars /\ KeepLate({"boot"})
    \/ BootAttach /\ UNCHANGED earlyVars /\ KeepLate({"boot"})
    \/ BootPreload /\ UNCHANGED earlyVars /\ KeepLate({"boot"})
    \/ BootReady /\ UNCHANGED earlyVars /\ KeepLate({"boot"})
    \/ BootTask /\ UNCHANGED earlyVars /\ KeepLate({"boot"})
    \/ BootEOF /\ UNCHANGED earlyVars /\ KeepLate({"boot"})

SpecBoot == InitBoot /\ [][NextBoot]_vars

-----------------------------------------------------------------------------
(* Properties of the worker's startup *)

Readies(records) == Cardinality({k \in 1..Len(records) : records[k] = ReadyRecord})

HasParquetDir == boot.has_config /\ boot.config.parquetDir # ""

\* C29: after a config line that contains parquetDir, whatever else it
\* contains, the worker emits the ready record exactly once, before it reads a
\* task line and before it emits a result record.
C29_ReadyOnceBeforeTasks ==
    (boot.pc # "idle" /\ HasParquetDir) =>
        /\ boot.pc \in {"loop", "exited"} => Readies(boot.stdout) = 1
        /\ boot.consumed > 1 => boot.stdout # <<>> /\ boot.stdout[1] = ReadyRecord
        /\ \A k \in 1..Len(boot.stdout) :
              "branchId" \in DOMAIN boot.stdout[k] =>
                  \E j \in 1..(k - 1) : boot.stdout[j] = ReadyRecord

-----------------------------------------------------------------------------
(* Specification of a threshold sweep next to the backtests of its variants:    *)
(* VectorizedOptimizer.vectorized_threshold_sweep from the indicator on and      *)
(* _vectorized_simulate one day per step, then Backtester.simulate on the        *)
(* variant of every threshold, on the same panel and cost.                       *)

VecThresholds == {<<R(30)>>, <<R(70)>>, <<R(30), R(70)>>}
VecWindows == {1, 2}

\* a gate names its comparison once for each reader: the Backtester reads
\* comparator, the sweep reads comparison
VecGates == {[comparator |-> "lt", comparison |-> "Less Than"],
             [comparator |-> "gt", comparison |-> "Greater Than"]}

VecPanels == [{"SPY", "BIL"} -> [1..MaxBars -> Prices]]

\* the variant of the sweep with one threshold: one RSI condition on SPY, then a
\* single position ticker, else empty
GatedTree(gate, window, threshold, then_pos) ==
    [Node("indicator", "i", ThenElse(<<Pos(<<then_pos>>)>>, <<>>))
        EXCEPT !.conditions = <<Cond("if", "SPY", RSI, window, gate.comparator,
                                     threshold)>>]

\* indicator_values[:, None] < thresholds[None, :], one column per threshold
SignalMatrix(indicator_values, comparison, thresholds) ==
    [k \in 1..Len(thresholds) |->
        [day \in 1..Len(indicator_values) |->
            IF comparison = "Less Than"
            THEN FLt(indicator_values[day], thresholds[k])
            ELSE FGt(indicator_values[day], thresholds[k])]]

\* np.full((n_days, n_params), 10000.0), one column per parameter
FullEquity(n_days, n_params) ==
    [k \in 1..n_params |-> [day \in 1..n_days |-> R(START_EQUITY)]]

VecInit ==
    \E closes \in VecPanels, bps \in CostChoices, gate \in VecGates,
       window \in VecWindows, thresholds \in VecThresholds,
       then_pos \in {"SPY", "BIL"} :
        vec = [pc |-> "start", closes |-> closes, bps |-> bps, gate |-> gate,
               window |-> window, thresholds |-> thresholds, then_pos |-> then_pos,
               signals |-> <<>>, day |-> 0, equity |-> <<>>, holdings |-> <<>>,
               prev_signals |-> <<>>, reference |-> <<>>]

\* the sweep computes the indicator once and the signals of every threshold;
\* _vectorized_simulate sets up its arrays
VecSignals ==
    /\ vec.pc = "start"
    /\ vec' = [vec EXCEPT
                  !.pc = "days",
                  !.signals = SignalMatrix(calculate_rsi(vec.closes["SPY"], vec.window),
                                           vec.gate.comparison, vec.thresholds),
                  !.day = 1,
                  !.equity = FullEquity(MaxBars, Len(vec.thresholds)),
                  !.holdings = [k \in 1..Len(vec.thresholds) |-> R(0)],
                  !.prev_signals = [k \in 1..Len(vec.thresholds) |-> FALSE]]

\* prices of _vectorized_simulate
VecPrices(closes, position_ticker, n_days) ==
    IF position_ticker \in DOMAIN closes THEN closes[position_ticker]
    ELSE [day \in 1..n_days |-> R(1)]

\* np.where(holdings > 0, holdings * price, otherwise)
HeldValue(h, price, otherwise) == IF FGt(h, R(0)) THEN FMul(h, price) ELSE otherwise

\* the rebalance of one parameter on one day
VecHoldings(h, current_signal, prev_signal, portfolio_value, price, bps) ==
    IF current_signal # prev_signal
    THEN (IF current_signal
          THEN FDiv(FMul(portfolio_value, CostMultiplier(bps)), price)
          ELSE R(0))
    ELSE h

\* one turn of for day in range(1, n_days); day counts from 0 as in the code,
\* bar day is element day + 1 of a series
VecDayOf(v, price) ==
    IF IsNaN(price) \/ ~FGt(price, R(0))
    THEN [v EXCEPT !.day = @ + 1,
                   !.equity = [k \in DOMAIN @ |->
                                  [@[k] EXCEPT ![v.day + 1] = @[v.day]]]]
    ELSE [v EXCEPT
             !.day = @ + 1,
             !.holdings =
                 [k \in DOMAIN @ |->
                     VecHoldings(@[k], v.signals[k][v.day + 1], v.prev_signals[k],
                                 HeldValue(@[k], price, v.equity[k][v.day]),
                                 price, v.bps)],
             !.prev_signals = [k \in DOMAIN @ |-> v.signals[k][v.day + 1]],
             !.equity =
                 [k \in DOMAIN @ |->
                     [@[k] EXCEPT
                         ![v.day + 1] =
                             HeldValue(
                                 VecHoldings(v.holdings[k], v.signals[k][v.day + 1],
                                             v.prev_signals[k],
                                             HeldValue(v.holdings[k], price,
                                                       v.equity[k][v.day]),
                                             price, v.bps),
                                 price,
                                 HeldValue(v.holdings[k], price,
                                           v.equity[k][v.day]))]]]

VecDay ==
    /\ vec.pc = "days"
    /\ vec.day < MaxBars
    /\ vec' = VecDayOf(vec, VecPrices(vec.closes, vec.then_pos, MaxBars)[vec.day + 1])

\* the equity curve of Backtester.simulate on the variant with one threshold
VariantCurve(v, threshold) ==
    SimulateFrom(GatedTree(v.gate, v.window, threshold, v.then_pos), v.closes, v.bps,
                 1, R(START_EQUITY), EmptyAlloc, EmptyAlloc, <<>>)

\* the days are over: every variant is backtested on its own
VecVariants ==
    /\ vec.pc = "days"
    /\ vec.day = MaxBars
    /\ vec' = [vec EXCEPT
                  !.pc = "done",
                  !.reference = [k \in 1..Len(vec.thresholds) |->
                                    VariantCurve(vec, vec.thresholds[k])]]

InitVec == CoreIdle /\ EarlyIdle /\ LateIdleBut({"vec"}) /\ VecInit

NextVec ==
    \/ VecSignals /\ UNCHANGED earlyVars /\ KeepLate({"vec"})
    \/ VecDay /\ UNCHANGED earlyVars /\ KeepLate({"vec"})
    \/ VecVariants /\ UNCHANGED earlyVars /\ KeepLate({"vec"})

SpecVec == InitVec /\ [][NextVec]_vars

-----------------------------------------------------------------------------
(* Properties of the threshold sweep *)

\* C30: for an indicator-gated tree (one RSI threshold condition, then a single
\* position ticker, else empty) the equity curve _vectorized_simulate produces
\* for a threshold equals, bar by bar from bar 0, the equity curve simulate
\* produces for the variant with that threshold on the same panel and cost.
C30_SweepCurveEqualsVariantCurve ==
    vec.pc = "done" =>
        \A k \in 1..Len(vec.thresholds) :
            \A day \in 1..MaxBars : vec.equity[k][day] = vec.reference[k][day]

=============================================================================
